---- MODULE Spec2Model ----
(***************************************************************************)
(* Floor-plan editor core: the useUndo history hook (useUndo.ts), the      *)
(* geometry kernel (geometry.ts) and the WireframeEditor tool state        *)
(* machine.                                                                *)
(***************************************************************************)
EXTENDS Integers, Sequences, FiniteSets, TLC

(* ------------------------------------------------------------------ *)
(* Bounds of the history model                                         *)
(* ------------------------------------------------------------------ *)

\* Number of distinct document values (object identities) the caller uses.
NumVals == 2

\* Cap on the length of the past stack (the code's stacks are unbounded).
MaxDepth == 3

Vals == 0 .. (NumVals - 1)

(* ------------------------------------------------------------------ *)
(* Numbers: exact rationals [n, d] in lowest terms, d > 0               *)
(* (the code's floating point, without its rounding error)             *)
(* ------------------------------------------------------------------ *)

Abs(i) == IF i < 0 THEN -i ELSE i

RECURSIVE GCD(_, _)
GCD(a, b) == IF b = 0 THEN a ELSE GCD(b, a % b)

Rat(n, d) ==
    LET g == GCD(Abs(n), d)
    IN  [n |-> n \div g, d |-> d \div g]

R(i) == [n |-> i, d |-> 1]

\* The sum, difference and product of two integers are formed directly.
RAdd(a, b) ==
    IF a.d = b.d /\ a.d = 1 THEN [n |-> a.n + b.n, d |-> 1]
    ELSE Rat(a.n * b.d + b.n * a.d, a.d * b.d)

RSub(a, b) ==
    IF a.d = b.d /\ a.d = 1 THEN [n |-> a.n - b.n, d |-> 1]
    ELSE Rat(a.n * b.d - b.n * a.d, a.d * b.d)

RMul(a, b) ==
    IF a.d = b.d /\ a.d = 1 THEN [n |-> a.n * b.n, d |-> 1]
    ELSE LET g1 == GCD(Abs(a.n), b.d)
             g2 == GCD(Abs(b.n), a.d)
         IN  Rat((a.n \div g1) * (b.n \div g2), (a.d \div g2) * (b.d \div g1))

\* a / b for b # 0.
RDiv(a, b) ==
    IF b.n > 0 THEN RMul(a, [n |-> b.d, d |-> b.n])
    ELSE RMul(a, [n |-> -b.d, d |-> -b.n])

\* a < b: by the numerators over a common denominator, else by integer
\* parts and then the inverted remainders, so that no product of a
\* numerator and a denominator is formed.
RECURSIVE RLt(_, _)
RLt(a, b) ==
    IF a.d = b.d THEN a.n < b.n ELSE
    LET qa == a.n \div a.d
        qb == b.n \div b.d
        ra == a.n - qa * a.d
        rb == b.n - qb * b.d
    IN  IF qa # qb THEN qa < qb
        ELSE IF rb = 0 THEN FALSE
        ELSE IF ra = 0 THEN TRUE
        ELSE RLt([n |-> b.d, d |-> rb], [n |-> a.d, d |-> ra])

RLe(a, b) == ~RLt(b, a)

RMax(a, b) == IF RLt(a, b) THEN b ELSE a

RMin(a, b) == IF RLt(b, a) THEN b ELSE a

\* Math.round: the nearest integer, a half going up.
MathRound(a) == (2 * a.n + a.d) \div (2 * a.d)

\* Math.sqrt of a rational that is a perfect square (no other is asked for).
ISqrt(k) == CHOOSE r \in 0 .. k : r * r = k

MathSqrt(a) == [n |-> ISqrt(a.n), d |-> ISqrt(a.d)]

(* ------------------------------------------------------------------ *)
(* geometry.ts                                                          *)
(* ------------------------------------------------------------------ *)

\* A Point {x, y}; Pt(i, j) is the one with integer coordinates.
Pt(i, j) == [x |-> R(i), y |-> R(j)]

\* An array slot never assigned (what a[i] = v leaves below i past the end).
Hole == [x |-> [n |-> 0, d |-> 0], y |-> [n |-> 0, d |-> 0]]

HasHole(poly) == \E i \in 1 .. Len(poly) : poly[i] = Hole

dist2(a, b) ==
    LET dx == RSub(a.x, b.x)
        dy == RSub(a.y, b.y)
    IN  RAdd(RMul(dx, dx), RMul(dy, dy))

add(a, b) == [x |-> RAdd(a.x, b.x), y |-> RAdd(a.y, b.y)]

sub(a, b) == [x |-> RSub(a.x, b.x), y |-> RSub(a.y, b.y)]

mul(a, k) == [x |-> RMul(a.x, k), y |-> RMul(a.y, k)]

dot(a, b) == RAdd(RMul(a.x, b.x), RMul(a.y, b.y))

\* polygonTranslate moving the first vertex only.
polygonTranslate_firstOnly(poly, d) ==
    [i \in 1 .. Len(poly) |-> IF i = 1 THEN add(poly[i], d) ELSE poly[i]]

\* poly.map(p => add(p, d)): map skips the slots never assigned.
polygonTranslate(poly, d) ==
    [i \in 1 .. Len(poly) |-> IF poly[i] = Hole THEN Hole ELSE add(poly[i], d)]

\* l < n / (dd + 1e-12) for dd # 0: the quotient n / dd decides unless l
\* equals it, and then the 1e-12 does: it lowers a positive quotient and
\* raises a negative one.
LtQuotientEps(l, n, dd) ==
    LET q == RDiv(n, dd)
    IN  IF l = q THEN n.n < 0 ELSE RLt(l, q)

\* The ray-cast test of edge (poly[j], poly[i]).
RayCrosses(pt, pi, pj) ==
    /\ RLt(pt.y, pi.y) # RLt(pt.y, pj.y)
    /\ LtQuotientEps(RSub(pt.x, pi.x),
                     RMul(RSub(pj.x, pi.x), RSub(pt.y, pi.y)),
                     RSub(pj.y, pi.y))

pointInPolygon_noClosingEdge(pt, poly) ==
    LET n == Len(poly)
        hits == {i \in 2 .. n : RayCrosses(pt, poly[i], poly[i - 1])}
    IN  Cardinality(hits) % 2 = 1

\* pointInPolygon: `inside` is flipped once per edge (poly[j], poly[i]) the
\* ray crosses, j running one behind i and starting at the last vertex.
pointInPolygon(pt, poly) ==
    LET n == Len(poly)
        prev(i) == IF i = 1 THEN n ELSE i - 1
        hits == {i \in 1 .. n : RayCrosses(pt, poly[i], poly[prev(i)])}
    IN  Cardinality(hits) % 2 = 1

\* nearestPointOnSegment without the clamp of t to [0, 1].
nearestPointOnSegment_noClamp(p, a, b) ==
    LET ab == sub(b, a)
        len2 == dot(ab, ab)
        t == IF len2.n = 0 THEN R(0) ELSE RDiv(dot(sub(p, a), ab), len2)
    IN  [q |-> add(a, mul(ab, t)), t |-> t]

\* nearestPointOnSegment: a zero-length segment gets len2 = 1e-12 and, its
\* numerator being 0, t = 0.
nearestPointOnSegment(p, a, b) ==
    LET ab == sub(b, a)
        len2 == dot(ab, ab)
        t == IF len2.n = 0 THEN R(0)
             ELSE RMax(R(0), RMin(R(1), RDiv(dot(sub(p, a), ab), len2)))
    IN  [q |-> add(a, mul(ab, t)), t |-> t]

\* dist2(pt, nearestPointOnSegment(pt, a, b).q), in closed form (the squared
\* distance to an end where t is clamped, cross^2 / len2 between them): the
\* same number, without squaring the coordinates of q.
segmentDist2(pt, a, b) ==
    LET ab == sub(b, a)
        len2 == dot(ab, ab)
        pa == sub(pt, a)
        num == dot(pa, ab)
        cross == RSub(RMul(pa.x, ab.y), RMul(pa.y, ab.x))
    IN  IF len2.n = 0 \/ num.n <= 0 THEN dist2(pt, a)
        ELSE IF RLe(len2, num) THEN dist2(pt, b)
        ELSE RDiv(RMul(cross, cross), len2)

\* snapToGrid with Math.floor in place of Math.round.
snapToGrid_floor(p, grid) ==
    [x |-> R((RDiv(p.x, R(grid)).n \div RDiv(p.x, R(grid)).d) * grid),
     y |-> R((RDiv(p.y, R(grid)).n \div RDiv(p.y, R(grid)).d) * grid)]

\* snapToGrid without the multiplication by grid: the index of the grid
\* line in place of its coordinate.
snapToGrid_noScale(p, grid) ==
    [x |-> R(MathRound(RDiv(p.x, R(grid)))),
     y |-> R(MathRound(RDiv(p.y, R(grid))))]

\* snapToGrid(p, grid): Math.round(c / grid) * grid on each coordinate.
snapToGrid(p, grid) ==
    [x |-> R(MathRound(RDiv(p.x, R(grid))) * grid),
     y |-> R(MathRound(RDiv(p.y, R(grid))) * grid)]

\* edgesOf: edge i joins vertex i to vertex (i + 1) mod n.
edgesOf(poly) ==
    [i \in 1 .. Len(poly) |-> <<poly[i], poly[(i % Len(poly)) + 1]>>]

\* The running minimum of pickWall: best, and bestDist2 once it is finite.
NoBest == [best |-> -1, inf |-> TRUE, d2 |-> R(0)]

Better(st, d2, who) ==
    IF st.inf \/ RLt(d2, st.d2)
    THEN [best |-> who, inf |-> FALSE, d2 |-> d2]
    ELSE st

RECURSIVE PickWallEdges(_, _, _, _, _)
PickWallEdges(edges, pt, k, who, st) ==
    IF k > Len(edges) THEN st
    ELSE PickWallEdges(edges, pt, k + 1, who,
                       Better(st, segmentDist2(pt, edges[k][1], edges[k][2]), who))

\* bestDist2 < tol2 in place of bestDist2 <= tol2.
WithinTol_strict(st, tol) == ~st.inf /\ RLt(st.d2, R(tol * tol))

WithinTol(st, tol) == ~st.inf /\ RLe(st.d2, R(tol * tol))

RECURSIVE PickWallLoop_lastInside(_, _, _, _, _, _)
PickWallLoop_lastInside(polys, pt, tol, i, st, hit) ==
    IF i > Len(polys)
    THEN (IF hit >= 0 THEN hit ELSE IF WithinTol(st, tol) THEN st.best ELSE -1)
    ELSE PickWallLoop_lastInside(polys, pt, tol, i + 1,
             PickWallEdges(edgesOf(polys[i]), pt, 1, i - 1, st),
             IF pointInPolygon(pt, polys[i]) THEN i - 1 ELSE hit)

\* The loop of pickWall from polygon i (indices from 0 in the result).
RECURSIVE PickWallLoop(_, _, _, _, _)
PickWallLoop(polys, pt, tol, i, st) ==
    IF i > Len(polys)
    THEN (IF WithinTol(st, tol) THEN st.best ELSE -1)
    ELSE IF pointInPolygon(pt, polys[i]) THEN i - 1
    ELSE PickWallLoop(polys, pt, tol, i + 1,
                      PickWallEdges(edgesOf(polys[i]), pt, 1, i - 1, st))

pickWall_lastInside(polys, pt, tol) ==
    PickWallLoop_lastInside(polys, pt, tol, 1, NoBest, -1)

\* pickWall without the early return for a polygon that holds pt.
RECURSIVE PickWallLoop_nearestEdge(_, _, _, _, _)
PickWallLoop_nearestEdge(polys, pt, tol, i, st) ==
    IF i > Len(polys)
    THEN (IF WithinTol(st, tol) THEN st.best ELSE -1)
    ELSE PickWallLoop_nearestEdge(polys, pt, tol, i + 1,
             PickWallEdges(edgesOf(polys[i]), pt, 1, i - 1, st))

pickWall_nearestEdge(polys, pt, tol) ==
    PickWallLoop_nearestEdge(polys, pt, tol, 1, NoBest)

\* pickWall: the first polygon holding pt, else the polygon of the nearest
\* edge if within tol, else -1.
pickWall(polys, pt, tol) == PickWallLoop(polys, pt, tol, 1, NoBest)

RECURSIVE PickVertexLoop(_, _, _, _)
PickVertexLoop(poly, pt, i, st) ==
    IF i > Len(poly) THEN st
    ELSE PickVertexLoop(poly, pt, i + 1, Better(st, dist2(poly[i], pt), i - 1))

RECURSIVE PickVertexLoop_lastOnTies(_, _, _, _)
PickVertexLoop_lastOnTies(poly, pt, i, st) ==
    IF i > Len(poly) THEN st
    ELSE PickVertexLoop_lastOnTies(poly, pt, i + 1,
             IF st.inf \/ RLe(dist2(poly[i], pt), st.d2)
             THEN [best |-> i - 1, inf |-> FALSE, d2 |-> dist2(poly[i], pt)]
             ELSE st)

\* pickVertex keeping the last of the vertices at the minimum distance.
pickVertex_lastOnTies(poly, pt, tol) ==
    LET st == PickVertexLoop_lastOnTies(poly, pt, 1, NoBest)
    IN  IF WithinTol(st, tol) THEN st.best ELSE -1

\* pickVertex: the nearest vertex if within tol, else -1.
pickVertex(poly, pt, tol) ==
    LET st == PickVertexLoop(poly, pt, 1, NoBest)
    IN  IF WithinTol(st, tol) THEN st.best ELSE -1

\* createWallRectangle offsetting by the whole thickness on each side.
createWallRectangle_fullOffset(p1, p2, thickness) ==
    LET dir == sub(p2, p1)
        len2 == dot(dir, dir)
        len == MathSqrt(len2)
        n == IF len2.n = 0 THEN Pt(0, 0)
             ELSE [x |-> RDiv(RSub(R(0), dir.y), len), y |-> RDiv(dir.x, len)]
        off == mul(n, R(thickness))
    IN  <<add(p1, off), sub(p1, off), sub(p2, off), add(p2, off)>>

\* createWallRectangle: the rectangle of width thickness around p1 -> p2;
\* for p1 = p2 len is 1e-9 and the normal (-0 / len, 0 / len) is zero.
createWallRectangle(p1, p2, thickness) ==
    LET dir == sub(p2, p1)
        len2 == dot(dir, dir)
        len == MathSqrt(len2)
        n == IF len2.n = 0 THEN Pt(0, 0)
             ELSE [x |-> RDiv(RSub(R(0), dir.y), len), y |-> RDiv(dir.x, len)]
        off == mul(n, Rat(thickness, 2))
    IN  <<add(p1, off), sub(p1, off), sub(p2, off), add(p2, off)>>


VARIABLES
    \* ---- useUndo: the hook's state ----
    present,      \* the `present` binding of the handle returned by the last render
    stPresent,    \* the useState cell: the value last given to setPresent
    past,         \* past.current
    future,       \* future.current
    canUndo,      \* canUndo of the handle returned by the last render
    canRedo,      \* canRedo of the handle returned by the last render
    \* ---- observation of the calls made on the hook ----
    hop,          \* the last call (or render) made
    hpre,         \* the hook's state just before that call
    calls,        \* the calls made one render apart since the last reset of the log
    \* ---- WireframeEditor: the component's state ----
    tool, wallThickness, snap, hover, selection, drag, extendStart,
    \* ---- observation of the editor's events ----
    ev,           \* the last event handled
    raised,       \* whether its handler threw
    commits,      \* the plans it handed to onChange, in order
    handled,      \* how many events the session has seen
    \* ---- a call of a geometry function ----
    gPolys, gPt, gTol, gOut,
    \* ---- the plan's objects by reference ----
    heap,         \* the arrays and objects allocated, by reference
    planRef       \* the reference of the plan prop

hvars == <<present, stPresent, past, future, canUndo, canRedo>>

hobs == <<hop, hpre, calls>>

evars == <<tool, wallThickness, snap, hover, selection, drag, extendStart>>

eobs == <<ev, raised, commits, handled>>

gvars == <<gPolys, gPt, gTol, gOut>>

rvars == <<heap, planRef>>

vars == <<hvars, hobs, evars, eobs, gvars, rvars>>

\* An absent value (null, undefined) and a present one.
Null == <<>>

Some(v) == <<v>>

\* The hook's variables where the hook is not exercised.
HistIdle ==
    /\ present = 0
    /\ stPresent = 0
    /\ past = <<>>
    /\ future = <<>>
    /\ canUndo = FALSE
    /\ canRedo = FALSE
    /\ hop = [op |-> "none", arg |-> 0]
    /\ hpre = 0
    /\ calls = <<>>

\* The editor's variables where the editor is not mounted.
EditorIdle ==
    /\ tool = "select"
    /\ wallThickness = 0
    /\ snap = TRUE
    /\ hover = Null
    /\ selection = Null
    /\ drag = Null
    /\ extendStart = Null
    /\ ev = [type |-> "none"]
    /\ handled = 0
    /\ raised = FALSE
    /\ commits = <<>>

\* The geometry call's variables where no geometry function is exercised.
GeomIdle ==
    /\ gPolys = <<>>
    /\ gPt = Pt(0, 0)
    /\ gTol = 0
    /\ gOut = -2

\* The references where the plan is followed by value only.
RefsIdle ==
    /\ heap = <<>>
    /\ planRef = 0

(* ------------------------------------------------------------------ *)
(* useUndo                                                              *)
(* ------------------------------------------------------------------ *)

\* The hook's state as one record.
H == [present |-> present, stPresent |-> stPresent, past |-> past,
      future |-> future, canUndo |-> canUndo, canRedo |-> canRedo]

Front(s) == SubSeq(s, 1, Len(s) - 1)

Last(s) == s[Len(s)]

\* useUndo(initial): the state after the first render.
useUndo(initial) ==
    [present |-> initial, stPresent |-> initial, past |-> <<>>,
     future |-> <<>>, canUndo |-> FALSE, canRedo |-> FALSE]

set_keepsFuture(h, next) ==
    [h EXCEPT !.past = Append(h.past, h.present), !.stPresent = next]

\* set: past.current.push(present); setPresent(next); future.current = [].
set(h, next) ==
    [h EXCEPT !.past = Append(h.past, h.present),
              !.stPresent = next,
              !.future = <<>>]

undo_dropsPresent(h) ==
    IF Len(h.past) = 0 THEN h
    ELSE [h EXCEPT !.past = Front(h.past), !.stPresent = Last(h.past)]

\* undo: return on an empty past; else pop past, push present on future,
\* setPresent(prev).
undo(h) ==
    IF Len(h.past) = 0 THEN h
    ELSE [h EXCEPT !.past = Front(h.past),
                   !.future = Append(h.future, h.present),
                   !.stPresent = Last(h.past)]

redo_takesOldest(h) ==
    IF Len(h.future) = 0 THEN h
    ELSE [h EXCEPT !.future = Tail(h.future),
                   !.past = Append(h.past, h.present),
                   !.stPresent = Head(h.future)]

\* redo: return on an empty future; else pop future, push present on past,
\* setPresent(nxt).
redo(h) ==
    IF Len(h.future) = 0 THEN h
    ELSE [h EXCEPT !.future = Front(h.future),
                   !.past = Append(h.past, h.present),
                   !.stPresent = Last(h.future)]

reset_keepsFuture(h, val) ==
    [h EXCEPT !.past = <<>>, !.stPresent = val]

\* reset: past.current = []; future.current = []; setPresent(val).
reset(h, val) ==
    [h EXCEPT !.past = <<>>, !.future = <<>>, !.stPresent = val]

\* A render of the calling component: useState returns the cell's value and
\* the flags are computed from the refs (line 35).
render(h) ==
    [h EXCEPT !.present = h.stPresent,
              !.canUndo = (Len(h.past) # 0),
              !.canRedo = (Len(h.future) # 0)]

\* setPresent(v) with v identical (Object.is) to the cell's value schedules no
\* render: a render is pending exactly when the cell differs from what the
\* last render returned.
renderPending(h) == h.stPresent # h.present

SetH(h) ==
    /\ present' = h.present
    /\ stPresent' = h.stPresent
    /\ past' = h.past
    /\ future' = h.future
    /\ canUndo' = h.canUndo
    /\ canRedo' = h.canRedo

\* The log of calls made one render apart: a call made while a render is
\* pending (a batched call) restarts the log.
Logged(c) ==
    IF renderPending(H) THEN <<>>
    ELSE IF Len(calls) < 3 THEN Append(calls, c)
    ELSE Append(Tail(calls), c)

Observe(c) ==
    /\ hop' = c
    /\ hpre' = H
    /\ calls' = Logged(c)
    /\ UNCHANGED <<evars, eobs, gvars, rvars>>

CallSet(next) ==
    /\ Len(past) < MaxDepth
    /\ SetH(set(H, next))
    /\ Observe([op |-> "set", arg |-> next])

CallUndo ==
    /\ SetH(undo(H))
    /\ Observe([op |-> "undo", arg |-> 0])

CallRedo ==
    /\ SetH(redo(H))
    /\ Observe([op |-> "redo", arg |-> 0])

CallReset(val) ==
    /\ SetH(reset(H, val))
    /\ Observe([op |-> "reset", arg |-> val])

\* The component re-renders: because setPresent changed the cell, or for any
\* other reason of the caller's.
Render ==
    /\ SetH(render(H))
    /\ hop' = [op |-> "render", arg |-> 0]
    /\ hpre' = H
    /\ UNCHANGED <<calls, evars, eobs, gvars, rvars>>

InitHist ==
    /\ \E initial \in Vals :
          /\ present = useUndo(initial).present
          /\ stPresent = useUndo(initial).stPresent
          /\ past = useUndo(initial).past
          /\ future = useUndo(initial).future
          /\ canUndo = useUndo(initial).canUndo
          /\ canRedo = useUndo(initial).canRedo
    /\ hop = [op |-> "init", arg |-> 0]
    /\ hpre = H
    /\ calls = <<>>
    /\ EditorIdle
    /\ GeomIdle
    /\ RefsIdle

NextHist ==
    \/ \E next \in Vals : CallSet(next)
    \/ CallUndo
    \/ CallRedo
    \/ \E val \in Vals : CallReset(val)
    \/ Render

SpecHist == InitHist /\ [][NextHist]_vars

(* ------------------------------------------------------------------ *)
(* WireframeEditor                                                      *)
(* ------------------------------------------------------------------ *)

\* Bounds of the editor model.

\* How many of PointerPoints the pointer visits.
NumPts == 3

\* Cap on the commits of a session (the length of the caller's past stack).
MaxCommits == 2

\* Cap on the events of a session.
MaxEvents == 4

\* The range of coordinates the picking functions are evaluated on: beyond
\* it the products of the distance computations leave TLC's integers.
MaxDen == 2

MaxCoord == 120

\* Program constants.
PickTolerance == 8

DefaultGrid == 5

DefaultThickness == 20

MinThickness == 4

\* Where the pointer goes: next to the rectangle's first vertex, inside the
\* triangle, off every wall, inside the rectangle, and two more off every
\* wall. Any two of them are a rational distance apart, as
\* createWallRectangle's square root needs.
PointerPoints ==
    <<Pt(-2, 10), Pt(70, 10), Pt(34, 58), Pt(20, 10), Pt(98, 10), Pt(-30, 10)>>

Pointer == {PointerPoints[i] : i \in 1 .. NumPts}

\* What the slider is dragged to.
Thicknesses == {MinThickness}

\* The keys pressed: one for each branch of onKey, and one it ignores.
Keys == {"v", "D", "Delete", "s", "M", "t", "Escape"}

ToolButtons == {"select", "draw", "stretch", "extend", "delete"}

\* The plan the editor is mounted with: a triangle and a rectangle as walls,
\* one door, one window.
Triangle == <<Pt(62, 6), Pt(92, 6), Pt(62, 40)>>

Rectangle == <<Pt(0, 4), Pt(40, 4), Pt(40, 16), Pt(0, 16)>>

InitialPlan ==
    [walls |-> << [boundary |-> Triangle], [boundary |-> Rectangle] >>,
     doors |-> << [boundary |-> <<Pt(10, 4), Pt(20, 4)>>] >>,
     windows |-> << [boundary |-> <<Pt(62, 10), Pt(62, 20)>>] >>,
     rooms |-> <<>>,
     dimensions |-> [width |-> 100, height |-> 60]]

\* Another document the caller can load: the triangle alone.
OtherPlan ==
    [walls |-> << [boundary |-> Triangle] >>,
     doors |-> <<>>,
     windows |-> <<>>,
     rooms |-> <<>>,
     dimensions |-> [width |-> 100, height |-> 60]]

\* A third wall, away from the other two and from the pointer.
FarSquare == <<Pt(80, 44), Pt(96, 44), Pt(96, 56), Pt(80, 56)>>

\* And a document of three walls.
ThreeWallPlan ==
    [walls |-> << [boundary |-> Triangle], [boundary |-> Rectangle],
                  [boundary |-> FarSquare] >>,
     doors |-> <<>>,
     windows |-> <<>>,
     rooms |-> <<>>,
     dimensions |-> [width |-> 100, height |-> 60]]

Documents == {OtherPlan, ThreeWallPlan}

\* The plan prop: the caller's present document.
plan == present

\* The component's state as one record.
E == [tool |-> tool, wallThickness |-> wallThickness, snap |-> snap,
      hover |-> hover, selection |-> selection, drag |-> drag,
      extendStart |-> extendStart]

\* What a handler leaves: the state, the plans committed, whether it threw.
Result(e, cs) == [e |-> e, commits |-> cs, raised |-> FALSE]

\* An exception thrown before any setState: the state stays.
Throw(e) == [e |-> e, commits |-> <<>>, raised |-> TRUE]

\* plan.walls.map(w => w.boundary)
boundaries(pl) == [i \in 1 .. Len(pl.walls) |-> pl.walls[i].boundary]

\* A plan of the new walls with no doors and no windows.
WithWalls_wallsOnly(pl, walls) ==
    [walls |-> walls, doors |-> <<>>, windows |-> <<>>, rooms |-> pl.rooms,
     dimensions |-> pl.dimensions]

\* { ...plan, walls }
WithWalls(pl, walls) == [pl EXCEPT !.walls = walls]

\* a[k] = v on a copy of a (k from 0): past the end the array grows, the
\* slots between staying unassigned.
SetAt(a, k, v) ==
    IF k < Len(a) THEN [a EXCEPT ![k + 1] = v]
    ELSE a \o [i \in 1 .. (k - Len(a)) |-> Hole] \o <<v>>

\* walls.splice(wi): without the count, every wall from wi on goes.
Splice_toEnd(a, k) == SubSeq(a, 1, k)

\* walls.splice(wi, 1) on a copy.
Splice(a, k) == SubSeq(a, 1, k) \o SubSeq(a, k + 2, Len(a))

\* pickWall reads poly[i].x of every slot of every polygon up to the one it
\* returns at: it throws on the first polygon with an unassigned slot unless
\* an earlier polygon holds the point.
PickThrows(polys, pt) ==
    \E i \in 1 .. Len(polys) :
        /\ HasHole(polys[i])
        /\ \A j \in 1 .. (i - 1) :
              ~HasHole(polys[j]) /\ ~pointInPolygon(pt, polys[j])

Coord(c) == c.d <= MaxDen /\ Abs(c.n) <= MaxCoord * c.d

InRange(pl) ==
    \A i \in 1 .. Len(pl.walls) :
        \A k \in 1 .. Len(pl.walls[i].boundary) :
            LET v == pl.walls[i].boundary[k]
            IN  v = Hole \/ (Coord(v.x) /\ Coord(v.y))

\* handleMouseMove with a drag open, the move-wall anchor left where the
\* pointer went down.
MoveDragging_keepsAnchor(e, pl, p) ==
    LET dg == e.drag[1]
    IN  IF dg.kind = "draw"
        THEN Result([e EXCEPT !.drag = Some([dg EXCEPT !.currPt = Some(p)])], <<>>)
        ELSE IF dg.kind = "move-wall" /\ e.selection # Null
        THEN LET d == sub(p, dg.startPt)
                 by == IF e.snap THEN snapToGrid(d, 1) ELSE d
                 moved == [i \in 1 .. Len(pl.walls) |->
                             IF i - 1 # e.selection[1].wall THEN pl.walls[i]
                             ELSE [boundary |->
                                     polygonTranslate(pl.walls[i].boundary, by)]]
             IN  Result(e, <<WithWalls(pl, moved)>>)
        ELSE IF dg.kind = "move-vertex" /\ e.selection # Null /\ dg.vertex # Null
        THEN LET to == IF e.snap THEN snapToGrid(p, DefaultGrid) ELSE p
                 walls == [i \in 1 .. Len(pl.walls) |->
                             IF i - 1 # e.selection[1].wall THEN pl.walls[i]
                             ELSE [boundary |->
                                     SetAt(pl.walls[i].boundary, dg.vertex[1], to)]]
             IN  Result(e, <<WithWalls(pl, walls)>>)
        ELSE Result(e, <<>>)

\* handleMouseMove, with a drag open (lines 76-102).
MoveDragging(e, pl, p) ==
    LET dg == e.drag[1]
    IN  IF dg.kind = "draw"
        THEN Result([e EXCEPT !.drag = Some([dg EXCEPT !.currPt = Some(p)])], <<>>)
        ELSE IF dg.kind = "move-wall" /\ e.selection # Null
        THEN LET d == sub(p, dg.startPt)
                 by == IF e.snap THEN snapToGrid(d, 1) ELSE d
                 moved == [i \in 1 .. Len(pl.walls) |->
                             IF i - 1 # e.selection[1].wall THEN pl.walls[i]
                             ELSE [boundary |->
                                     polygonTranslate(pl.walls[i].boundary, by)]]
             IN  Result([e EXCEPT !.drag = Some([dg EXCEPT !.startPt = p])],
                        <<WithWalls(pl, moved)>>)
        ELSE IF dg.kind = "move-vertex" /\ e.selection # Null /\ dg.vertex # Null
        THEN LET to == IF e.snap THEN snapToGrid(p, DefaultGrid) ELSE p
                 walls == [i \in 1 .. Len(pl.walls) |->
                             IF i - 1 # e.selection[1].wall THEN pl.walls[i]
                             ELSE [boundary |->
                                     SetAt(pl.walls[i].boundary, dg.vertex[1], to)]]
             IN  Result(e, <<WithWalls(pl, walls)>>)
        ELSE Result(e, <<>>)

\* handleMouseMove, with no drag open: the hover (lines 104-115).
MoveHovering(e, pl, p) ==
    LET polys == boundaries(pl)
        wallIndex == pickWall(polys, p, PickTolerance)
        v == pickVertex(polys[wallIndex + 1], p, PickTolerance)
    IN  IF PickThrows(polys, p) THEN Throw(e)
        ELSE IF wallIndex >= 0
        THEN IF e.tool = "stretch"
             THEN Result([e EXCEPT !.hover =
                             Some([wall |-> wallIndex,
                                   vertex |-> IF v >= 0 THEN Some(v) ELSE Null])],
                         <<>>)
             ELSE Result([e EXCEPT !.hover =
                             Some([wall |-> wallIndex, vertex |-> Null])], <<>>)
        ELSE Result([e EXCEPT !.hover = Null], <<>>)

handleMouseMove(e, pl, p) ==
    IF e.drag # Null THEN MoveDragging(e, pl, p) ELSE MoveHovering(e, pl, p)

\* The select click where a miss leaves the selection as it was.
DownSelect_missKeepsSelection(e, pl, p) ==
    LET wi == pickWall(boundaries(pl), p, PickTolerance)
    IN  IF wi >= 0
        THEN Result([e EXCEPT
                        !.selection = Some([wall |-> wi, vertex |-> Null]),
                        !.drag = Some([kind |-> "move-wall", startPt |-> p,
                                       currPt |-> Null, startWall |-> Some(wi),
                                       vertex |-> Null])],
                    <<>>)
        ELSE Result(e, <<>>)

\* handleMouseDown under the select tool (lines 121-130).
DownSelect(e, pl, p) ==
    LET wi == pickWall(boundaries(pl), p, PickTolerance)
    IN  IF wi >= 0
        THEN Result([e EXCEPT
                        !.selection = Some([wall |-> wi, vertex |-> Null]),
                        !.drag = Some([kind |-> "move-wall", startPt |-> p,
                                       currPt |-> Null, startWall |-> Some(wi),
                                       vertex |-> Null])],
                    <<>>)
        ELSE Result([e EXCEPT !.selection = Null], <<>>)

\* handleMouseDown under the delete tool (lines 132-140).
DownDelete(e, pl, p) ==
    LET wi == pickWall(boundaries(pl), p, PickTolerance)
    IN  IF wi >= 0
        THEN Result(e, <<WithWalls(pl, Splice(pl.walls, wi))>>)
        ELSE Result(e, <<>>)

\* The stretch click where a miss clears the selection, as select's does.
DownStretch_missClears(e, pl, p) ==
    LET wi == pickWall(boundaries(pl), p, PickTolerance)
        vi == pickVertex(pl.walls[wi + 1].boundary, p, PickTolerance)
    IN  IF wi >= 0 /\ vi >= 0
        THEN Result([e EXCEPT
                        !.selection = Some([wall |-> wi, vertex |-> Some(vi)]),
                        !.drag = Some([kind |-> "move-vertex", startPt |-> p,
                                       currPt |-> Null, startWall |-> Some(wi),
                                       vertex |-> Some(vi)])],
                    <<>>)
        ELSE Result([e EXCEPT !.selection = Null], <<>>)

\* handleMouseDown under the stretch tool (lines 142-152).
DownStretch(e, pl, p) ==
    LET wi == pickWall(boundaries(pl), p, PickTolerance)
        vi == pickVertex(pl.walls[wi + 1].boundary, p, PickTolerance)
    IN  IF wi >= 0 /\ vi >= 0
        THEN Result([e EXCEPT
                        !.selection = Some([wall |-> wi, vertex |-> Some(vi)]),
                        !.drag = Some([kind |-> "move-vertex", startPt |-> p,
                                       currPt |-> Null, startWall |-> Some(wi),
                                       vertex |-> Some(vi)])],
                    <<>>)
        ELSE Result(e, <<>>)

\* The draw click opening the session without a live point.
DownDraw_noLivePoint(e, pl, p) ==
    Result([e EXCEPT !.drag = Some([kind |-> "draw", startPt |-> p,
                                    currPt |-> Null, startWall |-> Null,
                                    vertex |-> Null])],
           <<>>)

\* handleMouseDown under the draw tool (lines 154-157).
DownDraw(e, pl, p) ==
    Result([e EXCEPT !.drag = Some([kind |-> "draw", startPt |-> p,
                                    currPt |-> Some(p), startWall |-> Null,
                                    vertex |-> Null])],
           <<>>)

\* The first click storing a session on any wall hit, with vertex 0 where no
\* vertex is near.
DownExtendFirst_anyHit(e, pl, p) ==
    LET wi == pickWall(boundaries(pl), p, PickTolerance)
        vi == pickVertex(pl.walls[wi + 1].boundary, p, PickTolerance)
    IN  IF wi >= 0
        THEN Result([e EXCEPT !.extendStart =
                        Some([wall |-> wi, vertex |-> IF vi >= 0 THEN vi ELSE 0])],
                    <<>>)
        ELSE Result(e, <<>>)

\* The first click of the extend tool (lines 160-165).
DownExtendFirst(e, pl, p) ==
    LET wi == pickWall(boundaries(pl), p, PickTolerance)
        vi == pickVertex(pl.walls[wi + 1].boundary, p, PickTolerance)
    IN  IF wi >= 0 /\ vi >= 0
        THEN Result([e EXCEPT !.extendStart = Some([wall |-> wi, vertex |-> vi])],
                    <<>>)
        ELSE Result(e, <<>>)

\* The search keeping the farthest edge in place of the nearest.
RECURSIVE BestEdge_farthest(_, _, _, _)
BestEdge_farthest(edges, srcPt, i, st) ==
    IF i > Len(edges) THEN st
    ELSE LET d2 == segmentDist2(srcPt, edges[i][1], edges[i][2])
         IN  BestEdge_farthest(edges, srcPt, i + 1,
                 IF st.inf \/ RLt(st.bestD, d2)
                 THEN [inf |-> FALSE, bestD |-> d2, bestEdgeIdx |-> i - 1,
                       bestQ |-> nearestPointOnSegment(srcPt, edges[i][1],
                                                       edges[i][2]).q]
                 ELSE st)

\* The search of the second click (lines 174-187): the nearest point of the
\* target's edges to srcPt, the first of the nearest winning.
RECURSIVE BestEdge(_, _, _, _)
BestEdge(edges, srcPt, i, st) ==
    IF i > Len(edges) THEN st
    ELSE LET d2 == segmentDist2(srcPt, edges[i][1], edges[i][2])
         IN  BestEdge(edges, srcPt, i + 1,
                 IF st.inf \/ RLt(d2, st.bestD)
                 THEN [inf |-> FALSE, bestD |-> d2, bestEdgeIdx |-> i - 1,
                       bestQ |-> nearestPointOnSegment(srcPt, edges[i][1],
                                                       edges[i][2]).q]
                 ELSE st)

\* let bestQ = p, bestD = Infinity, bestEdgeIdx = 0 (lines 176-178).
NoEdge(p) == [inf |-> TRUE, bestD |-> R(0), bestEdgeIdx |-> 0, bestQ |-> p]

\* The second click of the extend tool (lines 167-198).
DownExtendSecond(e, pl, p) ==
    LET targetWall == pickWall(boundaries(pl), p, PickTolerance)
        src == e.extendStart[1]
        srcWallMissing == src.wall >= Len(pl.walls)
        srcBoundary == pl.walls[src.wall + 1].boundary
        srcPtMissing == \/ src.vertex >= Len(srcBoundary)
                        \/ srcBoundary[src.vertex + 1] = Hole
        srcPt == srcBoundary[src.vertex + 1]
        edges == edgesOf(pl.walls[targetWall + 1].boundary)
        best == BestEdge(edges, srcPt, 1, NoEdge(p))
        walls == [wi \in 1 .. Len(pl.walls) |->
                    IF wi - 1 # src.wall THEN pl.walls[wi]
                    ELSE [boundary |->
                            SetAt(pl.walls[wi].boundary, src.vertex,
                                  IF e.snap THEN snapToGrid(best.bestQ, DefaultGrid)
                                  ELSE best.bestQ)]]
    IN  IF targetWall >= 0
        THEN IF srcWallMissing THEN Throw(e)
             ELSE IF srcPtMissing /\ Len(edges) > 0 THEN Throw(e)
             ELSE Result([e EXCEPT !.extendStart = Null], <<WithWalls(pl, walls)>>)
        ELSE Result([e EXCEPT !.extendStart = Null], <<>>)

\* handleMouseDown where the move tool picks and drags as select does.
handleMouseDown_moveSelects(e, pl, p) ==
    IF e.tool \in {"select", "delete", "stretch", "extend", "move"}
       /\ PickThrows(boundaries(pl), p)
    THEN Throw(e)
    ELSE CASE e.tool \in {"select", "move"} -> DownSelect(e, pl, p)
           [] e.tool = "delete" -> DownDelete(e, pl, p)
           [] e.tool = "stretch" -> DownStretch(e, pl, p)
           [] e.tool = "draw" -> DownDraw(e, pl, p)
           [] e.tool = "extend" /\ e.extendStart = Null -> DownExtendFirst(e, pl, p)
           [] e.tool = "extend" /\ e.extendStart # Null -> DownExtendSecond(e, pl, p)
           [] OTHER -> Result(e, <<>>)

\* handleMouseDown (lines 118-201).
handleMouseDown(e, pl, p) ==
    IF e.tool \in {"select", "delete", "stretch", "extend"}
       /\ PickThrows(boundaries(pl), p)
    THEN Throw(e)
    ELSE CASE e.tool = "select" -> DownSelect(e, pl, p)
           [] e.tool = "delete" -> DownDelete(e, pl, p)
           [] e.tool = "stretch" -> DownStretch(e, pl, p)
           [] e.tool = "draw" -> DownDraw(e, pl, p)
           [] e.tool = "extend" /\ e.extendStart = Null -> DownExtendFirst(e, pl, p)
           [] e.tool = "extend" /\ e.extendStart # Null -> DownExtendSecond(e, pl, p)
           [] OTHER -> Result(e, <<>>)

\* handleMouseUp ending the rectangle at the pointer-up point.
handleMouseUp_usesUpPoint(e, pl, p) ==
    IF e.drag # Null /\ e.drag[1].kind = "draw"
    THEN LET rect == createWallRectangle(e.drag[1].startPt, p, e.wallThickness)
         IN  Result([e EXCEPT !.drag = Null],
                    <<WithWalls(pl, Append(pl.walls, [boundary |-> rect]))>>)
    ELSE Result([e EXCEPT !.drag = Null], <<>>)

\* handleMouseUp closing the draw session only.
handleMouseUp_closesDrawOnly(e, pl, p) ==
    IF e.drag # Null /\ e.drag[1].kind = "draw"
    THEN LET dg == e.drag[1]
             end == IF dg.currPt # Null THEN dg.currPt[1] ELSE p
             rect == createWallRectangle(dg.startPt, end, e.wallThickness)
         IN  Result([e EXCEPT !.drag = Null],
                    <<WithWalls(pl, Append(pl.walls, [boundary |-> rect]))>>)
    ELSE Result(e, <<>>)

\* handleMouseUp (lines 203-214).
handleMouseUp(e, pl, p) ==
    IF e.drag # Null /\ e.drag[1].kind = "draw"
    THEN LET dg == e.drag[1]
             end == IF dg.currPt # Null THEN dg.currPt[1] ELSE p
             rect == createWallRectangle(dg.startPt, end, e.wallThickness)
         IN  Result([e EXCEPT !.drag = Null],
                    <<WithWalls(pl, Append(pl.walls, [boundary |-> rect]))>>)
    ELSE Result([e EXCEPT !.drag = Null], <<>>)

\* onKey where Delete also removes the selected wall.
onKey_deleteRemovesSelection(e, key) ==
    LET t == CASE key \in {"v", "V"} -> "select"
               [] key \in {"d", "D"} -> "draw"
               [] key \in {"x", "X", "Delete"} -> "delete"
               [] key \in {"s", "S"} -> "stretch"
               [] key \in {"m", "M"} -> "move"
               [] key \in {"t", "T"} -> "extend"
               [] OTHER -> e.tool
    IN  IF key = "Delete" /\ e.selection # Null
           /\ e.selection[1].wall < Len(plan.walls)
        THEN Result([e EXCEPT !.tool = t],
                    <<WithWalls(plan, Splice(plan.walls, e.selection[1].wall))>>)
        ELSE Result([e EXCEPT !.tool = t], <<>>)

\* onKey (lines 218-225).
onKey(e, key) ==
    LET t == CASE key \in {"v", "V"} -> "select"
               [] key \in {"d", "D"} -> "draw"
               [] key \in {"x", "X", "Delete"} -> "delete"
               [] key \in {"s", "S"} -> "stretch"
               [] key \in {"m", "M"} -> "move"
               [] key \in {"t", "T"} -> "extend"
               [] OTHER -> e.tool
    IN  Result([e EXCEPT !.tool = t], <<>>)

\* A toolbar button: onClick={() => setTool(...)} (lines 242-256).
onToolButton(e, t) == Result([e EXCEPT !.tool = t], <<>>)

\* The Snap checkbox (line 270).
onSnapChange(e, checked) == Result([e EXCEPT !.snap = checked], <<>>)

\* The Thickness slider (line 265).
onThicknessChange(e, value) == Result([e EXCEPT !.wallThickness = value], <<>>)

\* The caller's onChange: each plan goes to the hook's set, and the caller
\* renders with the new present before the next event.
RECURSIVE SetAll(_, _)
SetAll(h, cs) == IF cs = <<>> THEN h ELSE SetAll(set(h, Head(cs)), Tail(cs))

Committed(h, cs) == IF cs = <<>> THEN h ELSE render(SetAll(h, cs))

NoEventKey == ""

NoEventPoint == Pt(0, 0)

Event(type, p, key) == [type |-> type, p |-> p, key |-> key]

\* An event handled: the component's new state, what the handler committed
\* taken in by the caller.
HandledBy(r, event) ==
    /\ handled < MaxEvents
    /\ r.commits # <<>> => Len(past) < MaxCommits
    /\ handled' = handled + 1
    /\ tool' = r.e.tool
    /\ wallThickness' = r.e.wallThickness
    /\ snap' = r.e.snap
    /\ hover' = r.e.hover
    /\ selection' = r.e.selection
    /\ drag' = r.e.drag
    /\ extendStart' = r.e.extendStart
    /\ ev' = event
    /\ raised' = r.raised
    /\ commits' = r.commits
    /\ SetH(Committed(H, r.commits))
    /\ UNCHANGED <<hobs, gvars>>

\* The same, the plan followed by value only.
Handled(r, event) == HandledBy(r, event) /\ UNCHANGED rvars

MouseDown(p) ==
    /\ tool \in {"select", "delete", "stretch", "extend"} => InRange(plan)
    /\ \E r \in {handleMouseDown(E, plan, p)} : Handled(r, Event("down", p, NoEventKey))

MouseMove(p) ==
    /\ drag = Null => InRange(plan)
    /\ \E r \in {handleMouseMove(E, plan, p)} : Handled(r, Event("move", p, NoEventKey))

MouseUp(p) ==
    \E r \in {handleMouseUp(E, plan, p)} : Handled(r, Event("up", p, NoEventKey))

KeyDown(key) ==
    \E r \in {onKey(E, key)} : Handled(r, Event("key", NoEventPoint, key))

ToolButton(t) ==
    \E r \in {onToolButton(E, t)} : Handled(r, Event("tool", NoEventPoint, NoEventKey))

SnapChange(checked) ==
    /\ checked = ~snap
    /\ \E r \in {onSnapChange(E, checked)} : Handled(r, Event("snap", NoEventPoint, NoEventKey))

ThicknessChange(value) ==
    \E r \in {onThicknessChange(E, value)} : Handled(r, Event("thickness", NoEventPoint, NoEventKey))

\* The caller's undo and redo buttons: the hook's call, then the render.
CallerUndo ==
    /\ handled < MaxEvents
    /\ handled' = handled + 1
    /\ SetH(render(undo(H)))
    /\ ev' = Event("undo", NoEventPoint, NoEventKey)
    /\ raised' = FALSE
    /\ commits' = <<>>
    /\ UNCHANGED <<evars, hobs, gvars, rvars>>

CallerRedo ==
    /\ handled < MaxEvents
    /\ handled' = handled + 1
    /\ SetH(render(redo(H)))
    /\ ev' = Event("redo", NoEventPoint, NoEventKey)
    /\ raised' = FALSE
    /\ commits' = <<>>
    /\ UNCHANGED <<evars, hobs, gvars, rvars>>

\* The caller loads a document: the hook's reset, then the render.
CallerLoad(doc) ==
    /\ handled < MaxEvents
    /\ handled' = handled + 1
    /\ SetH(render(reset(H, doc)))
    /\ ev' = Event("load", NoEventPoint, NoEventKey)
    /\ raised' = FALSE
    /\ commits' = <<>>
    /\ UNCHANGED <<evars, hobs, gvars, rvars>>

\* The component mounted with InitialPlan.
Mounted ==
    /\ present = useUndo(InitialPlan).present
    /\ stPresent = useUndo(InitialPlan).stPresent
    /\ past = useUndo(InitialPlan).past
    /\ future = useUndo(InitialPlan).future
    /\ canUndo = useUndo(InitialPlan).canUndo
    /\ canRedo = useUndo(InitialPlan).canRedo
    /\ hop = [op |-> "init", arg |-> 0]
    /\ hpre = H
    /\ calls = <<>>
    /\ tool = "select"
    /\ wallThickness = DefaultThickness
    /\ snap = TRUE
    /\ hover = Null
    /\ selection = Null
    /\ drag = Null
    /\ extendStart = Null
    /\ ev = Event("mount", NoEventPoint, NoEventKey)
    /\ raised = FALSE
    /\ commits = <<>>
    /\ handled = 0
    /\ GeomIdle

InitEd == Mounted /\ RefsIdle

NextEd ==
    \/ \E p \in Pointer : MouseDown(p)
    \/ \E p \in Pointer : MouseMove(p)
    \/ \E p \in Pointer : MouseUp(p)
    \/ \E key \in Keys : KeyDown(key)
    \/ \E t \in ToolButtons : ToolButton(t)
    \/ \E checked \in BOOLEAN : SnapChange(checked)
    \/ \E value \in Thicknesses : ThicknessChange(value)
    \/ CallerUndo
    \/ CallerRedo
    \/ \E doc \in Documents : CallerLoad(doc)

SpecEd == InitEd /\ [][NextEd]_vars

(* ------------------------------------------------------------------ *)
(* The keys of onKey in both cases                                      *)
(* ------------------------------------------------------------------ *)

\* The keys onKey tests that Keys leaves out: each is the twin, in the other
\* case or by the same line, of a key of Keys, and what can follow the press
\* of one is what follows its twin. They are pressed last.
LastKeys == {"V", "d", "x", "X", "S", "m", "T"}

NextKeys ==
    \/ NextEd
    \/ \E key \in LastKeys : (handled = MaxEvents - 1 /\ KeyDown(key))

SpecKeys == InitEd /\ [][NextKeys]_vars

(* ------------------------------------------------------------------ *)
(* One move-wall drag, the pointer moving in half units                 *)
(* ------------------------------------------------------------------ *)

\* The pointer moves over DragOrigin + (i / 2, j / 2), i and j in
\* 0 .. FineSteps.
FineSteps == 3

\* Where the button goes down: next to the rectangle.
DragOrigin == PointerPoints[1]

FinePoints ==
    {add(DragOrigin, [x |-> Rat(i, 2), y |-> Rat(j, 2)]) :
        i \in 0 .. FineSteps, j \in 0 .. FineSteps}

\* The editor as mounted, a pointer-down at DragOrigin, then pointer-moves
\* with the drag open.
NextDrag ==
    \/ (drag = Null /\ MouseDown(DragOrigin))
    \/ \E p \in FinePoints : (drag # Null /\ MouseMove(p))

SpecDrag == InitEd /\ [][NextDrag]_vars

(* ------------------------------------------------------------------ *)
(* Pointer-moves handled before the render of the one before            *)
(* ------------------------------------------------------------------ *)

\* The root is a createRoot root: what a mousemove handler sets is rendered
\* in a later task, and a second mousemove can be handled before it, by the
\* handler of the same render. The handler of a move-vertex drag sets no
\* state of the component (lines 91-100), so that E is what that handler
\* closes over; its plan is the hook's present of that render.
MouseMoveDeferred(p) ==
    /\ drag # Null
    /\ \E r \in {handleMouseMove(E, plan, p)} :
          /\ r.e = E
          /\ r.commits # <<>>
          /\ handled < MaxEvents
          /\ Len(past) < MaxCommits
          /\ handled' = handled + 1
          /\ ev' = Event("move", p, NoEventKey)
          /\ raised' = r.raised
          /\ commits' = r.commits
          /\ SetH(SetAll(H, r.commits))
          /\ UNCHANGED <<evars, hobs, gvars, rvars>>

\* The render that was waiting.
RenderDeferred ==
    /\ renderPending(H)
    /\ SetH(render(H))
    /\ UNCHANGED <<evars, eobs, hobs, gvars, rvars>>

\* Every other event comes with nothing waiting to be rendered.
NextDeferred ==
    \/ \E p \in Pointer : (~renderPending(H) /\ MouseDown(p))
    \/ \E p \in Pointer : (~renderPending(H) /\ MouseMove(p))
    \/ \E p \in Pointer : (~renderPending(H) /\ MouseUp(p))
    \/ \E key \in Keys : (~renderPending(H) /\ KeyDown(key))
    \/ \E p \in Pointer : MouseMoveDeferred(p)
    \/ RenderDeferred

SpecDeferred == InitEd /\ [][NextDeferred]_vars

(* ------------------------------------------------------------------ *)
(* The plan's arrays and objects by reference                           *)
(* ------------------------------------------------------------------ *)

\* heap[r] is the object of reference r: a plan (its walls a reference, its
\* other fields only read, lines 310-325), an array of walls (references of
\* wall objects), a wall object (the reference of its boundary) or a
\* boundary (an array of points; a point is never written to).
Cell(kind, val) == [kind |-> kind, val |-> val]

\* A new object: its reference is the next one.
Alloc(h, kind, val) == [heap |-> Append(h, Cell(kind, val)), ref |-> Len(h) + 1]

\* The plan object of reference r, by value.
Deref(h, r) ==
    LET walls == h[h[r].val.walls].val
    IN  [h[r].val EXCEPT !.walls =
            [k \in 1 .. Len(walls) |-> [boundary |-> h[h[walls[k]].val].val]]]

\* The objects of a plan given by value, none shared: the boundaries, the
\* wall objects, the walls array, the plan.
Stored(pl) ==
    LET n == Len(pl.walls)
    IN  [heap |->
            [i \in 1 .. (2 * n + 2) |->
                IF i <= n THEN Cell("boundary", pl.walls[i].boundary)
                ELSE IF i <= 2 * n THEN Cell("wall", i - n)
                ELSE IF i = 2 * n + 1 THEN Cell("walls", [k \in 1 .. n |-> n + k])
                ELSE Cell("plan", [pl EXCEPT !.walls = 2 * n + 1])],
         ref |-> 2 * n + 2]

\* a.slice() handing back a itself.
slice_sameArray(h, r) == [heap |-> h, ref |-> r]

\* a.slice(): a new array of the same items.
slice(h, r) == Alloc(h, h[r].kind, h[r].val)

\* { ...plan, walls }: a new plan object.
RefWithWalls(h, r, walls) == Alloc(h, "plan", [h[r].val EXCEPT !.walls = walls])

\* plan.walls.map((w, i) => i !== wall ? w : { boundary: nb }): a new array,
\* the other wall objects shared.
RefMapWalls(h, r, wall, nb) ==
    LET walls == h[h[r].val.walls].val
        w == Alloc(h, "wall", nb)
    IN  IF wall < Len(walls)
        THEN Alloc(w.heap, "walls", [walls EXCEPT ![wall + 1] = w.ref])
        ELSE Alloc(h, "walls", walls)

\* The commit of a move-vertex pointer-move and of an extend second click
\* (lines 93-99, 190-196): nb = w.boundary.slice(); nb[vertex] = v.
RefSetVertex(h, r, wall, vertex, v) ==
    LET walls == h[h[r].val.walls].val
        nb == slice(h, h[walls[wall + 1]].val)
        written == [nb.heap EXCEPT ![nb.ref].val = SetAt(@, vertex, v)]
        mapped == IF wall < Len(walls) THEN RefMapWalls(written, r, wall, nb.ref)
                  ELSE RefMapWalls(h, r, wall, 0)
    IN  RefWithWalls(mapped.heap, r, mapped.ref)

\* The commit of a move-wall pointer-move (lines 85-89): polygonTranslate
\* returns a new array.
RefTranslate(h, r, wall, d) ==
    LET walls == h[h[r].val.walls].val
        nb == Alloc(h, "boundary",
                    polygonTranslate(h[h[walls[wall + 1]].val].val, d))
        mapped == IF wall < Len(walls) THEN RefMapWalls(nb.heap, r, wall, nb.ref)
                  ELSE RefMapWalls(h, r, wall, 0)
    IN  RefWithWalls(mapped.heap, r, mapped.ref)

\* The commit of a delete pointer-down (lines 135-137): walls =
\* plan.walls.slice(); walls.splice(wi, 1).
RefDelete(h, r, wi) ==
    LET walls == slice(h, h[r].val.walls)
        spliced == [walls.heap EXCEPT ![walls.ref].val = Splice(@, wi)]
    IN  RefWithWalls(spliced, r, walls.ref)

\* The commit of a draw pointer-up (lines 208-210): concat returns a new
\* array.
RefAppend(h, r, rect) ==
    LET nb == Alloc(h, "boundary", rect)
        w == Alloc(nb.heap, "wall", nb.ref)
        walls == Alloc(w.heap, "walls", Append(h[h[r].val.walls].val, w.ref))
    IN  RefWithWalls(walls.heap, r, walls.ref)

\* What the handler of the event allocates and writes where it commits; c is
\* the plan it commits.
RefCommit(h, r, e, pl, type, p, c) ==
    CASE type = "move" /\ e.drag[1].kind = "move-wall" ->
            RefTranslate(h, r, e.selection[1].wall,
                         IF e.snap THEN snapToGrid(sub(p, e.drag[1].startPt), 1)
                         ELSE sub(p, e.drag[1].startPt))
      [] type = "move" /\ e.drag[1].kind = "move-vertex" ->
            RefSetVertex(h, r, e.selection[1].wall, e.drag[1].vertex[1],
                         IF e.snap THEN snapToGrid(p, DefaultGrid) ELSE p)
      [] type = "down" /\ e.tool = "delete" ->
            RefDelete(h, r, pickWall(boundaries(pl), p, PickTolerance))
      [] type = "down" /\ e.tool = "extend" ->
            RefSetVertex(h, r, e.extendStart[1].wall, e.extendStart[1].vertex,
                         c.walls[e.extendStart[1].wall + 1]
                            .boundary[e.extendStart[1].vertex + 1])
      [] type = "up" ->
            RefAppend(h, r, c.walls[Len(c.walls)].boundary)

\* An event handled, the plan followed by reference too: the plan prop of the
\* next render is the object committed.
HandledRefs(r, event) ==
    /\ HandledBy(r, event)
    /\ \E a \in {IF r.commits = <<>> THEN [heap |-> heap, ref |-> planRef]
                 ELSE RefCommit(heap, planRef, E, plan, event.type, event.p,
                                r.commits[1])} :
          /\ heap' = a.heap
          /\ planRef' = a.ref

RefMouseDown(p) ==
    /\ tool \in {"select", "delete", "stretch", "extend"} => InRange(plan)
    /\ \E r \in {handleMouseDown(E, plan, p)} :
          HandledRefs(r, Event("down", p, NoEventKey))

RefMouseMove(p) ==
    /\ drag = Null => InRange(plan)
    /\ \E r \in {handleMouseMove(E, plan, p)} :
          HandledRefs(r, Event("move", p, NoEventKey))

RefMouseUp(p) ==
    \E r \in {handleMouseUp(E, plan, p)} : HandledRefs(r, Event("up", p, NoEventKey))

RefKeyDown(key) ==
    \E r \in {onKey(E, key)} : HandledRefs(r, Event("key", NoEventPoint, key))

InitRefs ==
    /\ Mounted
    /\ heap = Stored(InitialPlan).heap
    /\ planRef = Stored(InitialPlan).ref

NextRefs ==
    \/ \E p \in Pointer : RefMouseDown(p)
    \/ \E p \in Pointer : RefMouseMove(p)
    \/ \E p \in Pointer : RefMouseUp(p)
    \/ \E key \in Keys : RefKeyDown(key)

SpecRefs == InitRefs /\ [][NextRefs]_vars

(* ------------------------------------------------------------------ *)
(* A delete made while a vertex drag is open                            *)
(* ------------------------------------------------------------------ *)

\* A wall of three vertices, away from the other two.
FarTriangle == <<Pt(80, 44), Pt(96, 44), Pt(96, 56)>>

\* A document whose wall of four vertices is followed by one of three.
StalePlan ==
    [walls |-> << [boundary |-> Triangle], [boundary |-> Rectangle],
                  [boundary |-> FarTriangle] >>,
     doors |-> <<>>,
     windows |-> <<>>,
     rooms |-> <<>>,
     dimensions |-> [width |-> 100, height |-> 60]]

\* Where the pointer goes: by the last vertex of the rectangle, inside the
\* triangle, and on no wall; the three are whole distances apart.
StalePoints == {Pt(-2, 14), Pt(70, 14), Pt(34, 62)}

\* The editor mounted with StalePlan, the stretch tool chosen; pointer and
\* key events follow.
InitStale ==
    /\ present = useUndo(StalePlan).present
    /\ stPresent = useUndo(StalePlan).stPresent
    /\ past = useUndo(StalePlan).past
    /\ future = useUndo(StalePlan).future
    /\ canUndo = useUndo(StalePlan).canUndo
    /\ canRedo = useUndo(StalePlan).canRedo
    /\ hop = [op |-> "init", arg |-> 0]
    /\ hpre = H
    /\ calls = <<>>
    /\ tool = "stretch"
    /\ wallThickness = DefaultThickness
    /\ snap = TRUE
    /\ hover = Null
    /\ selection = Null
    /\ drag = Null
    /\ extendStart = Null
    /\ ev = Event("mount", NoEventPoint, NoEventKey)
    /\ raised = FALSE
    /\ commits = <<>>
    /\ handled = 0
    /\ GeomIdle
    /\ RefsIdle

NextStale ==
    \/ \E p \in StalePoints : MouseDown(p)
    \/ \E p \in StalePoints : MouseMove(p)
    \/ \E p \in StalePoints : MouseUp(p)
    \/ \E key \in Keys : KeyDown(key)

SpecStale == InitStale /\ [][NextStale]_vars

(* ------------------------------------------------------------------ *)
(* Calls of the geometry functions                                      *)
(* ------------------------------------------------------------------ *)

\* The longest list of polygons handed to pickWall.
MaxPolys == 2

\* The points handed to it have coordinates 0 .. MaxGrid.
MaxGrid == 6

Square(i, j, side) ==
    <<Pt(i, j), Pt(i + side, j), Pt(i + side, j + side), Pt(i, j + side)>>

\* Two squares that overlap, a triangle and a concave polygon over both, and
\* a polygon of two vertices.
Shapes ==
    { Square(0, 0, 4),
      Square(2, 2, 4),
      <<Pt(0, 0), Pt(6, 0), Pt(0, 6)>>,
      <<Pt(0, 0), Pt(6, 0), Pt(6, 2), Pt(2, 2), Pt(2, 6), Pt(0, 6)>>,
      <<Pt(1, 1), Pt(5, 5)>> }

PolyLists == UNION {[1 .. n -> Shapes] : n \in 0 .. MaxPolys}

GridPoints == {Pt(i, j) : i \in 0 .. MaxGrid, j \in 0 .. MaxGrid}

Tolerances == {0, 1, PickTolerance}

\* pickWall(polys, pt, tol) called on the inputs drawn.
CallPickWall ==
    /\ gOut = -2
    /\ gOut' = pickWall(gPolys, gPt, gTol)
    /\ UNCHANGED <<gPolys, gPt, gTol, hvars, hobs, evars, eobs, rvars>>

InitGeom ==
    /\ HistIdle
    /\ EditorIdle
    /\ gPolys \in PolyLists
    /\ gPt \in GridPoints
    /\ gTol \in Tolerances
    /\ gOut = -2
    /\ RefsIdle

NextGeom == CallPickWall

SpecGeom == InitGeom /\ [][NextGeom]_vars

(* ------------------------------------------------------------------ *)
(* snapToGrid applied, and applied again to what it returned            *)
(* ------------------------------------------------------------------ *)

\* The coordinates given are k / d, k up to MaxSnapCoord either side of 0
\* and d up to MaxDen; the grids are 1 .. MaxSnapGrid.
MaxSnapCoord == 12

MaxSnapGrid == 5

SnapCoords ==
    {Rat(k, d) : k \in (0 - MaxSnapCoord) .. MaxSnapCoord, d \in 1 .. MaxDen}

\* gPt is the point given and gTol the grid; gPolys[1] holds the points
\* returned so far, gOut counts the calls.
CallSnapToGrid ==
    /\ gOut = 0
    /\ gPolys' = <<Append(gPolys[1], snapToGrid(gPt, gTol))>>
    /\ gOut' = 1
    /\ UNCHANGED <<gPt, gTol, hvars, hobs, evars, eobs, rvars>>

CallSnapToGridAgain ==
    /\ gOut = 1
    /\ gPolys' = <<Append(gPolys[1], snapToGrid(gPolys[1][1], gTol))>>
    /\ gOut' = 2
    /\ UNCHANGED <<gPt, gTol, hvars, hobs, evars, eobs, rvars>>

InitSnap ==
    /\ HistIdle
    /\ EditorIdle
    /\ RefsIdle
    /\ gPolys = << <<>> >>
    /\ gPt \in {[x |-> cx, y |-> cy] : cx \in SnapCoords, cy \in SnapCoords}
    /\ gTol \in 1 .. MaxSnapGrid
    /\ gOut = 0

NextSnap == CallSnapToGrid \/ CallSnapToGridAgain

SpecSnap == InitSnap /\ [][NextSnap]_vars

(* ------------------------------------------------------------------ *)
(* Calls of createWallRectangle                                         *)
(* ------------------------------------------------------------------ *)

\* p1 has integer coordinates up to MaxRectOrigin either side of 0; p2 is
\* p1 + d for d a vector of integer length, or the zero vector.
MaxRectOrigin == 1

RectDirections ==
    {Pt(100, 0), Pt(0, 5), Pt(3, 4), Pt(-4, 3), Pt(-6, -8), Pt(5, -12),
     Pt(-7, 0), Pt(0, 0)}

RectThicknesses == {MinThickness, 7, DefaultThickness}

\* gPolys[1] is <<p1, p2>> and gTol the thickness; the rectangle returned
\* becomes gPolys[2].
CallCreateWallRectangle ==
    /\ gOut = 0
    /\ gPolys' = Append(gPolys,
                        createWallRectangle(gPolys[1][1], gPolys[1][2], gTol))
    /\ gOut' = 1
    /\ UNCHANGED <<gPt, gTol, hvars, hobs, evars, eobs, rvars>>

InitRect ==
    /\ HistIdle
    /\ EditorIdle
    /\ RefsIdle
    /\ gPolys \in {<<<<Pt(i, j), add(Pt(i, j), d)>>>> :
                      i \in (0 - MaxRectOrigin) .. MaxRectOrigin,
                      j \in (0 - MaxRectOrigin) .. MaxRectOrigin,
                      d \in RectDirections}
    /\ gPt = Pt(0, 0)
    /\ gTol \in RectThicknesses
    /\ gOut = 0

NextRect == CallCreateWallRectangle

SpecRect == InitRect /\ [][NextRect]_vars

(* ------------------------------------------------------------------ *)
(* Calls of pickVertex                                                  *)
(* ------------------------------------------------------------------ *)

\* pickVertex(poly, pt, tol) called on one polygon of Shapes or on the
\* polygon without vertices; gPolys[1] is the polygon.
CallPickVertex ==
    /\ gOut = -2
    /\ gOut' = pickVertex(gPolys[1], gPt, gTol)
    /\ UNCHANGED <<gPolys, gPt, gTol, hvars, hobs, evars, eobs, rvars>>

InitVertex ==
    /\ HistIdle
    /\ EditorIdle
    /\ RefsIdle
    /\ gPolys \in {<<poly>> : poly \in Shapes \cup {<<>>}}
    /\ gPt \in GridPoints
    /\ gTol \in Tolerances
    /\ gOut = -2

NextVertex == CallPickVertex

SpecVertex == InitVertex /\ [][NextVertex]_vars

(* ------------------------------------------------------------------ *)
(* Claims about useUndo                                                 *)
(* ------------------------------------------------------------------ *)

\* Their calls were made one render apart and the named ops were the last n.
LastCalls(ops) ==
    /\ Len(calls) >= Len(ops)
    /\ \A i \in 1 .. Len(ops) :
          calls[Len(calls) - Len(ops) + i].op = ops[i]

\* C1: set(next), from any state, leaves past = the old past with the old
\* present (the handle's `present`) appended, makes next the present (the
\* state cell holds next, and the next render returns it) and empties future
\* whatever it held.
C1_SetContract ==
    /\ hop.op = "set" =>
          /\ past = Append(hpre.past, hpre.present)
          /\ stPresent = hop.arg
          /\ future = <<>>
    /\ (hop.op = "render" /\ LastCalls(<<"set">>)) =>
          present = calls[Len(calls)].arg

C1_Witness ==
    /\ hop.op = "set"
    /\ Len(hpre.past) > 0
    /\ Len(hpre.future) > 0
    /\ hop.arg # hpre.present

\* C2: undo() with an empty past changes nothing; otherwise the present
\* becomes the last element of past, past loses that element and future gains
\* the old present at its tail.
C2_UndoContract ==
    hop.op = "undo" =>
        IF Len(hpre.past) = 0
        THEN H = hpre
        ELSE /\ stPresent = Last(hpre.past)
             /\ past = Front(hpre.past)
             /\ future = Append(hpre.future, hpre.present)

C2_Witness ==
    /\ hop.op = "undo"
    /\ Len(hpre.past) >= 2
    /\ Len(hpre.future) >= 1
    /\ Last(hpre.past) # hpre.present

\* C3: redo() with an empty future changes nothing; otherwise the present
\* becomes the last element of future, future loses that element and past
\* gains the old present at its tail.
C3_RedoContract ==
    hop.op = "redo" =>
        IF Len(hpre.future) = 0
        THEN H = hpre
        ELSE /\ stPresent = Last(hpre.future)
             /\ future = Front(hpre.future)
             /\ past = Append(hpre.past, hpre.present)

C3_Witness ==
    /\ hop.op = "redo"
    /\ Len(hpre.future) >= 2
    /\ Len(hpre.past) >= 1
    /\ Head(hpre.future) # Last(hpre.future)

\* C4: after set(A) then set(B), undo() yields present = A and canRedo = TRUE,
\* and a redo() after it yields present = B; a set(C) after an undo() leaves
\* future empty, so that a redo() right after it changes nothing. (Stated for
\* calls made one render apart.)
C4_Scenario ==
    /\ LastCalls(<<"set", "set", "undo">>) =>
          /\ stPresent = calls[Len(calls) - 2].arg
          /\ ~renderPending(H) =>
                /\ present = calls[Len(calls) - 2].arg
                /\ canRedo = TRUE
          /\ redo(render(H)).stPresent = calls[Len(calls) - 1].arg
    /\ LastCalls(<<"undo", "set">>) =>
          /\ future = <<>>
          /\ redo(render(H)) = render(H)

\* C5: reset(val), from any state, empties past and future and makes val the
\* present, so that undo() and redo() right after it change nothing.
C5_ResetContract ==
    /\ hop.op = "reset" =>
          /\ past = <<>>
          /\ future = <<>>
          /\ stPresent = hop.arg
          /\ undo(H) = H
          /\ redo(H) = H
          /\ undo(render(H)) = render(H)
          /\ redo(render(H)) = render(H)
    /\ (hop.op = "render" /\ LastCalls(<<"reset">>)) =>
          present = calls[Len(calls)].arg

C5_Witness ==
    /\ hop.op = "reset"
    /\ Len(hpre.past) > 0
    /\ Len(hpre.future) > 0
    /\ hop.arg # hpre.present

\* C6: in every state the caller observes (no render pending), canUndo is
\* TRUE exactly when past is non-empty and canRedo exactly when future is
\* non-empty.
C6_FlagsReflectStacks ==
    ~renderPending(H) =>
        /\ canUndo = (Len(past) # 0)
        /\ canRedo = (Len(future) # 0)

(* ------------------------------------------------------------------ *)
(* Claims about WireframeEditor                                         *)
(* ------------------------------------------------------------------ *)

\* The step is an event the editor handled.
EventStep(types) == handled' = handled + 1 /\ ev'.type \in types

\* C7: no sequence of pointer and key events, interleaved with the caller
\* replacing the plan, makes an event handler raise.
C7_NoHandlerRaises == raised = FALSE

\* C8: a switch of the tool, by key or by toolbar, leaves no DragSession and
\* no ExtendSession open.
C8_ToolSwitchAbandons ==
    [][(EventStep({"key", "tool"}) /\ tool' # tool)
          => (drag' = Null /\ extendStart' = Null)]_vars

\* q lies on the segment from a to b: q = a + t (b - a) with 0 <= t <= 1.
OnSegment(q, a, b) ==
    LET ab == sub(b, a)
        aq == sub(q, a)
        along == dot(aq, ab)
    IN  /\ RSub(RMul(ab.x, aq.y), RMul(ab.y, aq.x)) = R(0)
        /\ RLe(R(0), along)
        /\ RLe(along, dot(ab, ab))

\* The step is a second click of the extend tool at p that committed.
ExtendCommit(p) ==
    /\ EventStep({"down"})
    /\ ev'.p = p
    /\ tool = "extend"
    /\ extendStart # Null
    /\ commits' # <<>>

\* Of that step: the target edge chosen (a to b), the nearest point q of it
\* to the source vertex, and where the source vertex is afterwards.
ExtendOutcome(p) ==
    LET src == extendStart[1]
        target == pickWall(boundaries(plan), p, PickTolerance)
        edges == edgesOf(plan.walls[target + 1].boundary)
        srcPt == plan.walls[src.wall + 1].boundary[src.vertex + 1]
        best == BestEdge(edges, srcPt, 1, NoEdge(p))
    IN  [a |-> edges[best.bestEdgeIdx + 1][1],
         b |-> edges[best.bestEdgeIdx + 1][2],
         q |-> best.bestQ,
         moved |-> present'.walls[src.wall + 1].boundary[src.vertex + 1]]

\* C9 as stated: after an extend commit the moved vertex lies on the chosen
\* target edge, whether snap is on or off.
C9_MovedVertexOnEdge ==
    [][\A p \in Pointer :
          ExtendCommit(p) =>
              OnSegment(ExtendOutcome(p).moved, ExtendOutcome(p).a,
                        ExtendOutcome(p).b)]_vars

\* C9, amended: after an extend commit the nearest point q of the chosen
\* target edge lies on that edge; with snap off the moved vertex is q, with
\* snap on it is snapToGrid(q, 5), which need not lie on the edge.
C9_MovedVertexOnEdgeUnlessSnapped ==
    [][\A p \in Pointer :
          ExtendCommit(p) =>
              /\ OnSegment(ExtendOutcome(p).q, ExtendOutcome(p).a,
                           ExtendOutcome(p).b)
              /\ ExtendOutcome(p).moved =
                    IF snap THEN snapToGrid(ExtendOutcome(p).q, DefaultGrid)
                    ELSE ExtendOutcome(p).q]_vars

\* An extend commit with snap off that moved the source vertex.
C9_Witness ==
    /\ ev.type = "down"
    /\ tool = "extend"
    /\ extendStart = Null
    /\ commits # <<>>
    /\ snap = FALSE
    /\ Len(past) > 0
    /\ Last(past) # present

(* ------------------------------------------------------------------ *)
(* Claims about the geometry functions                                  *)
(* ------------------------------------------------------------------ *)

\* p lies on an edge of poly.
OnBoundary(p, poly) ==
    \E k \in 1 .. Len(poly) :
        OnSegment(p, poly[k], poly[(k % Len(poly)) + 1])

\* The edge from a to b passes strictly to the right of p, at p's height
\* (the lower end counted, the upper not).
PassesRight(p, a, b) ==
    LET s == RSub(RMul(RSub(b.x, a.x), RSub(p.y, a.y)),
                  RMul(RSub(p.x, a.x), RSub(b.y, a.y)))
    IN  \/ RLe(a.y, p.y) /\ RLt(p.y, b.y) /\ s.n > 0
        \/ RLe(b.y, p.y) /\ RLt(p.y, a.y) /\ s.n < 0

\* p is strictly inside poly: off its boundary, an odd number of its edges
\* passing to the right of p.
StrictlyInside(p, poly) ==
    /\ Len(poly) >= 3
    /\ ~OnBoundary(p, poly)
    /\ Cardinality({k \in 1 .. Len(poly) :
                      PassesRight(p, poly[k], poly[(k % Len(poly)) + 1])}) % 2 = 1

\* C10 as stated: for a point strictly inside polygon i, pickWall returns i,
\* whatever the tolerance.
C10_ContainmentReturnsIndex ==
    gOut # -2 =>
        \A i \in 1 .. Len(gPolys) :
            StrictlyInside(gPt, gPolys[i]) => gOut = i - 1

\* C10, amended: for a point strictly inside polygon i, pickWall returns the
\* first polygon of the list that contains the point, whatever the
\* tolerance: an index no greater than i, and i itself when no polygon
\* before i contains the point.
C10_FirstContainingReturned ==
    gOut # -2 =>
        \A i \in 1 .. Len(gPolys) :
            StrictlyInside(gPt, gPolys[i]) =>
                /\ gOut >= 0
                /\ gOut <= i - 1
                /\ pointInPolygon(gPt, gPolys[gOut + 1])
                /\ \A j \in 1 .. gOut : ~pointInPolygon(gPt, gPolys[j])
                /\ (\A j \in 1 .. (i - 1) : ~pointInPolygon(gPt, gPolys[j]))
                      => gOut = i - 1

\* pickWall called with tolerance 0 on a point strictly inside two polygons
\* of the list, the first of them returned.
C10_Witness ==
    /\ gOut >= 0
    /\ gTol = 0
    /\ StrictlyInside(gPt, gPolys[gOut + 1])
    /\ \E i \in 1 .. Len(gPolys) :
          i - 1 > gOut /\ StrictlyInside(gPt, gPolys[i])

\* The polygons of the list that hold p by the even-odd test.
Holding(polys, p) == {i \in 1 .. Len(polys) : pointInPolygon(p, polys[i])}

\* The squared distances from p to the edges of poly.
EdgeDist2s(poly, p) ==
    {segmentDist2(p, poly[k], poly[(k % Len(poly)) + 1]) : k \in 1 .. Len(poly)}

\* d is the least of the squared distances from p to the edges of polys.
IsMinEdgeDist2(polys, p, d) ==
    /\ \E i \in 1 .. Len(polys) : d \in EdgeDist2s(polys[i], p)
    /\ \A i \in 1 .. Len(polys) : \A e \in EdgeDist2s(polys[i], p) : RLe(d, e)

\* C11: when p lies inside several polygons, pickWall returns the smallest
\* index among them, even if a polygon at another index has a closer edge.
C11_SmallestContainingIndex ==
    (gOut # -2 /\ Holding(gPolys, gPt) # {}) =>
        /\ gOut + 1 \in Holding(gPolys, gPt)
        /\ \A i \in Holding(gPolys, gPt) : gOut + 1 <= i

\* pickWall called on a point inside two polygons of the list, an edge of
\* the later one strictly closer to the point than any edge of the first.
C11_Witness ==
    /\ gOut >= 0
    /\ Cardinality(Holding(gPolys, gPt)) >= 2
    /\ \E i \in Holding(gPolys, gPt) :
          /\ i > gOut + 1
          /\ \E e \in EdgeDist2s(gPolys[i], gPt) :
                \A f \in EdgeDist2s(gPolys[gOut + 1], gPt) : RLt(e, f)

\* C12: when no polygon contains p, pickWall returns the lowest index of a
\* polygon one of whose edges is at the least squared distance from p over
\* all edges of all polygons, if that distance is at most the tolerance, and
\* -1 otherwise; -1 for an empty list.
C12_NearestEdgeWithinTolerance ==
    (gOut # -2 /\ Holding(gPolys, gPt) = {}) =>
        /\ gOut >= 0 =>
              \E d \in EdgeDist2s(gPolys[gOut + 1], gPt) :
                  /\ IsMinEdgeDist2(gPolys, gPt, d)
                  /\ RLe(d, R(gTol * gTol))
                  /\ \A j \in 1 .. gOut : d \notin EdgeDist2s(gPolys[j], gPt)
        /\ gOut < 0 =>
              /\ gOut = -1
              /\ \A i \in 1 .. Len(gPolys) :
                    \A e \in EdgeDist2s(gPolys[i], gPt) : RLt(R(gTol * gTol), e)
        /\ gPolys = <<>> => gOut = -1

\* pickWall called on a point that no polygon holds and that is exactly the
\* tolerance away from the nearest edge, two polygons in the list.
C12_Witness ==
    /\ gOut >= 0
    /\ Holding(gPolys, gPt) = {}
    /\ Len(gPolys) >= 2
    /\ gTol = 1
    /\ IsMinEdgeDist2(gPolys, gPt, R(1))

\* The step is a pointer-down at p under the given tool whose handler
\* returned.
DownStep(t, p) ==
    /\ EventStep({"down"})
    /\ ev'.p = p
    /\ tool = t
    /\ ~raised'

\* C13: a pointer-down under the delete tool that hits wall i of n walls
\* emits one commit, of n - 1 walls: those before i as they were, each one
\* after i one place down; a miss emits no commit.
C13_DeleteRemovesPickedWall ==
    [][\A p \in Pointer :
          DownStep("delete", p) =>
              LET i == pickWall(boundaries(plan), p, PickTolerance)
                  n == Len(plan.walls)
              IN  IF i >= 0
                  THEN /\ Len(commits') = 1
                       /\ Len(commits'[1].walls) = n - 1
                       /\ \A j \in 0 .. (i - 1) :
                             commits'[1].walls[j + 1] = plan.walls[j + 1]
                       /\ \A j \in (i + 1) .. (n - 1) :
                             commits'[1].walls[j] = plan.walls[j + 1]
                  ELSE commits' = <<>>]_vars

\* Index 1 of three walls deleted: the former wall 2 is at index 1.
C13_Witness ==
    /\ ev.type = "down"
    /\ tool = "delete"
    /\ Len(commits) = 1
    /\ Len(past) > 0
    /\ Len(Last(past).walls) = 3
    /\ Len(present.walls) = 2
    /\ present.walls[1] = Last(past).walls[1]
    /\ present.walls[2] = Last(past).walls[3]

\* C14: a pointer-down at p under the select tool sets Selection to the wall
\* pickWall returns and opens a move-wall DragSession anchored at p; on a
\* miss it clears Selection and opens no DragSession; it never commits.
C14_SelectDown ==
    [][\A p \in Pointer :
          DownStep("select", p) =>
              LET wi == pickWall(boundaries(plan), p, PickTolerance)
              IN  /\ commits' = <<>>
                  /\ present' = present
                  /\ IF wi >= 0
                     THEN /\ selection' = Some([wall |-> wi, vertex |-> Null])
                          /\ drag' # Null
                          /\ drag'[1].kind = "move-wall"
                          /\ drag'[1].startPt = p
                     ELSE /\ selection' = Null
                          /\ drag' = drag]_vars

\* A select click that missed every wall, after one that had selected a
\* wall: the selection is cleared.
C14_Witness ==
    /\ ev.type = "down"
    /\ tool = "select"
    /\ pickWall(boundaries(plan), ev.p, PickTolerance) < 0
    /\ selection = Null
    /\ drag # Null
    /\ drag[1].kind = "move-wall"
    /\ commits = <<>>

\* The step is a pointer-move at p with a DragSession of the given kind open
\* and a wall selected.
DragStep(kind, p) ==
    /\ EventStep({"move"})
    /\ ev'.p = p
    /\ drag # Null
    /\ drag[1].kind = kind
    /\ selection # Null

\* C15: every pointer-move of a move-wall drag commits a plan in which all
\* vertices of the selected wall are translated by one and the same vector
\* and every other wall is as before.
C15_MoveWallTranslatesRigidly ==
    [][\A p \in Pointer :
          DragStep("move-wall", p) =>
              LET k == selection[1].wall
                  old == plan.walls
                  new == commits'[1].walls
              IN  /\ Len(commits') = 1
                  /\ Len(new) = Len(old)
                  /\ \A w \in 1 .. Len(old) :
                        IF w - 1 # k THEN new[w] = old[w]
                        ELSE /\ Len(new[w].boundary) = Len(old[w].boundary)
                             /\ \A v \in 1 .. Len(old[w].boundary) :
                                   sub(new[w].boundary[v], old[w].boundary[v])
                                     = sub(new[w].boundary[1], old[w].boundary[1])]_vars

\* A pointer-move of a move-wall drag that moved the selected wall.
C15_Witness ==
    /\ ev.type = "move"
    /\ tool = "select"
    /\ drag # Null
    /\ drag[1].kind = "move-wall"
    /\ selection # Null
    /\ selection[1].wall < Len(present.walls)
    /\ Len(commits) = 1
    /\ Len(past) > 0
    /\ Last(past).walls[selection[1].wall + 1]
          # present.walls[selection[1].wall + 1]

RAbs(a) == [n |-> Abs(a.n), d |-> a.d]

\* C16: with snap on, after any pointer-moves of one move-wall drag, the
\* wall's accumulated translation differs from the pointer's displacement
\* since the pointer-down by less than one unit on each axis.
C16_MoveWallDriftFree ==
    (/\ ev.type = "move"
     /\ snap
     /\ drag # Null
     /\ drag[1].kind = "move-wall"
     /\ selection # Null) =>
        LET k == selection[1].wall
            moved == sub(present.walls[k + 1].boundary[1],
                         InitialPlan.walls[k + 1].boundary[1])
            pointer == sub(ev.p, DragOrigin)
        IN  /\ RLt(RAbs(RSub(moved.x, pointer.x)), R(1))
            /\ RLt(RAbs(RSub(moved.y, pointer.y)), R(1))

\* C17: a pointer-down at p under the stretch tool sets Selection to
\* {wall: wi, vertex: vi} and opens a move-vertex DragSession exactly when
\* pickWall returns wi >= 0 and pickVertex on wall wi returns vi >= 0;
\* otherwise Selection and DragSession stay; it never commits.
C17_StretchDown ==
    [][\A p \in Pointer :
          DownStep("stretch", p) =>
              LET wi == pickWall(boundaries(plan), p, PickTolerance)
                  vi == IF wi >= 0
                        THEN pickVertex(plan.walls[wi + 1].boundary, p,
                                        PickTolerance)
                        ELSE -1
              IN  /\ commits' = <<>>
                  /\ present' = present
                  /\ IF wi >= 0 /\ vi >= 0
                     THEN /\ selection' = Some([wall |-> wi, vertex |-> Some(vi)])
                          /\ drag' # Null
                          /\ drag'[1].kind = "move-vertex"
                          /\ drag'[1].vertex = Some(vi)
                     ELSE /\ selection' = selection
                          /\ drag' = drag]_vars

\* A stretch click on a wall but on none of its vertices, after one that
\* had picked a vertex: selection and drag are as that one left them.
C17_Witness ==
    /\ ev.type = "down"
    /\ tool = "stretch"
    /\ pickWall(boundaries(plan), ev.p, PickTolerance) >= 0
    /\ pickVertex(plan.walls[pickWall(boundaries(plan), ev.p, PickTolerance) + 1].boundary,
                  ev.p, PickTolerance) < 0
    /\ selection # Null
    /\ selection[1].vertex # Null
    /\ drag # Null
    /\ drag[1].kind = "move-vertex"
    /\ commits = <<>>

\* C18: every pointer-move to p of a move-vertex drag commits a plan in
\* which the dragged vertex is p with snap off and snapToGrid(p, 5) with snap
\* on, whatever it was before (raw (13,22) gives (15,20)), the other vertices
\* of that wall and the other walls unchanged.
C18_MoveVertexAbsolute ==
    [][\A p \in Pointer :
          (DragStep("move-vertex", p) /\ drag[1].vertex # Null) =>
              LET k == selection[1].wall
                  vi == drag[1].vertex[1]
                  old == plan.walls
                  new == commits'[1].walls
              IN  /\ snapToGrid(Pt(13, 22), DefaultGrid) = Pt(15, 20)
                  /\ Len(commits') = 1
                  /\ Len(new) = Len(old)
                  /\ \A w \in 1 .. Len(old) :
                        IF w - 1 # k THEN new[w] = old[w]
                        ELSE /\ new[w].boundary[vi + 1] =
                                   (IF snap THEN [x |-> R(5 * MathRound(Rat(p.x.n, 5 * p.x.d))),
                                                  y |-> R(5 * MathRound(Rat(p.y.n, 5 * p.y.d)))]
                                    ELSE p)
                             /\ \A v \in 1 .. Len(old[w].boundary) :
                                   v - 1 # vi =>
                                       new[w].boundary[v] = old[w].boundary[v]]_vars

\* A pointer-move of a move-vertex drag with snap on, to a point off the
\* grid: the vertex is at the grid point.
C18_Witness ==
    /\ ev.type = "move"
    /\ snap
    /\ drag # Null
    /\ drag[1].kind = "move-vertex"
    /\ selection # Null
    /\ selection[1].wall < Len(present.walls)
    /\ Len(commits) = 1
    /\ present.walls[selection[1].wall + 1].boundary[drag[1].vertex[1] + 1]
          = snapToGrid(ev.p, DefaultGrid)
    /\ snapToGrid(ev.p, DefaultGrid) # ev.p

\* C19: a pointer-up with a draw DragSession open emits one commit, the
\* wall list with one wall appended whose boundary is
\* createWallRectangle(anchor, live point, thickness), and closes the
\* DragSession; also when anchor and live point are equal.
C19_DrawUpAppendsRectangle ==
    [][(/\ EventStep({"up"})
        /\ drag # Null
        /\ drag[1].kind = "draw") =>
          /\ Len(commits') = 1
          /\ drag[1].currPt # Null
          /\ commits'[1].walls =
                Append(plan.walls,
                       [boundary |->
                           createWallRectangle(drag[1].startPt, drag[1].currPt[1],
                                               wallThickness)])
          /\ Len(commits'[1].walls[Len(plan.walls) + 1].boundary) = 4
          /\ present' = commits'[1]
          /\ drag' = Null]_vars

\* A draw click without movement committed: one wall more, drawn from a
\* point to itself.
C19_Witness ==
    /\ ev.type = "up"
    /\ tool = "draw"
    /\ drag = Null
    /\ Len(commits) = 1
    /\ Len(past) > 0
    /\ Len(present.walls) = Len(Last(past).walls) + 1
    /\ \E q \in Pointer :
          present.walls[Len(present.walls)].boundary
             = createWallRectangle(q, q, wallThickness)

\* C20: under the draw tool a pointer-down at p opens a draw DragSession with
\* anchor and live point p, whatever lies under the pointer; a pointer-move
\* while it is open changes the live point only; neither commits.
C20_DrawSessionBeforeRelease ==
    [][\A p \in Pointer :
          /\ DownStep("draw", p) =>
                /\ drag' # Null
                /\ drag'[1].kind = "draw"
                /\ drag'[1].startPt = p
                /\ drag'[1].currPt = Some(p)
                /\ commits' = <<>>
                /\ UNCHANGED <<present, tool, wallThickness, snap, hover,
                               selection, extendStart>>
          /\ (/\ EventStep({"move"})
              /\ ev'.p = p
              /\ drag # Null
              /\ drag[1].kind = "draw") =>
                /\ drag' = Some([drag[1] EXCEPT !.currPt = Some(p)])
                /\ commits' = <<>>
                /\ UNCHANGED <<present, tool, wallThickness, snap, hover,
                               selection, extendStart>>]_vars

\* A draw session opened on a wall, the pointer moved away since: the anchor
\* stays, the live point follows, nothing is committed.
C20_Witness ==
    /\ ev.type = "move"
    /\ tool = "draw"
    /\ drag # Null
    /\ drag[1].kind = "draw"
    /\ drag[1].currPt = Some(ev.p)
    /\ drag[1].startPt # ev.p
    /\ pickWall(boundaries(plan), drag[1].startPt, PickTolerance) >= 0
    /\ commits = <<>>
    /\ past = <<>>

\* C21: a pointer-up with a move-wall or move-vertex DragSession open, or
\* with none, emits no commit and changes nothing but the DragSession; after
\* every pointer-up, under every tool, the DragSession is empty.
C21_UpClosesDragSession ==
    [][EventStep({"up"}) =>
          /\ drag' = Null
          /\ ~raised'
          /\ (drag = Null \/ drag[1].kind # "draw") =>
                /\ commits' = <<>>
                /\ UNCHANGED <<hvars, tool, wallThickness, snap, hover,
                               selection, extendStart>>]_vars

\* The button released after a click on a wall under the select tool: the
\* move-wall session the click had opened is closed, nothing is committed.
C21_Witness ==
    /\ ev.type = "up"
    /\ handled = 2
    /\ tool = "select"
    /\ selection # Null
    /\ drag = Null
    /\ commits = <<>>
    /\ present = InitialPlan

\* C22: a pointer-down under the extend tool with an ExtendSession open
\* leaves the ExtendSession empty, whether or not pickWall finds a target
\* wall; where it finds none, nothing is committed and nothing is raised.
C22_SecondClickClearsSession ==
    [][(/\ EventStep({"down"})
        /\ tool = "extend"
        /\ extendStart # Null) =>
          /\ extendStart' = Null
          /\ (/\ ~PickThrows(boundaries(plan), ev'.p)
              /\ pickWall(boundaries(plan), ev'.p, PickTolerance) < 0) =>
                (commits' = <<>> /\ ~raised')]_vars

\* C23: with no ExtendSession open, a pointer-down under the extend tool
\* stores {wall, vertex} as the ExtendSession exactly when pickWall, and then
\* pickVertex on that wall, both succeed, leaves it empty otherwise, and
\* commits nothing; pointer-moves and pointer-ups leave the ExtendSession as
\* it is.
C23_FirstClickStoresSession ==
    [][/\ \A p \in Pointer :
            (/\ EventStep({"down"})
             /\ ev'.p = p
             /\ tool = "extend"
             /\ extendStart = Null) =>
               LET polys == boundaries(plan)
                   wi == IF PickThrows(polys, p) THEN -1
                         ELSE pickWall(polys, p, PickTolerance)
                   vi == IF wi < 0 THEN -1
                         ELSE pickVertex(polys[wi + 1], p, PickTolerance)
               IN  /\ extendStart' = IF wi >= 0 /\ vi >= 0
                                      THEN Some([wall |-> wi, vertex |-> vi])
                                      ELSE Null
                   /\ commits' = <<>>
                   /\ present' = present
       /\ EventStep({"move", "up"}) => extendStart' = extendStart]_vars

\* A session stored by a first click on vertex 0 of the rectangle, still
\* there after later events, the last a pointer-move.
C23_Witness ==
    /\ ev.type = "move"
    /\ handled = 4
    /\ tool = "extend"
    /\ extendStart = Some([wall |-> 1, vertex |-> 0])
    /\ drag = Null
    /\ present = InitialPlan

\* C24: the plan a second click of the extend tool commits differs from the
\* plan before in the source vertex of the source wall only; that vertex is
\* at q, or at snapToGrid(q, 5) with snap on, q being the point nearest to
\* the vertex's old position on an edge of the target wall that is as near
\* to it as any edge of the target wall, the closing edge included.
C24_ExtendCommitContent ==
    [][\A p \in Pointer :
          ExtendCommit(p) =>
              LET src == extendStart[1]
                  new == commits'[1]
                  target == plan.walls[pickWall(boundaries(plan), p,
                                                PickTolerance) + 1].boundary
                  old == plan.walls[src.wall + 1].boundary
                  srcPt == old[src.vertex + 1]
                  moved == new.walls[src.wall + 1].boundary
                  n == Len(target)
              IN  /\ Len(commits') = 1
                  /\ present' = new
                  /\ Len(new.walls) = Len(plan.walls)
                  /\ \A i \in 1 .. Len(plan.walls) :
                        i # src.wall + 1 => new.walls[i] = plan.walls[i]
                  /\ Len(moved) = Len(old)
                  /\ \A k \in 1 .. Len(old) :
                        k # src.vertex + 1 => moved[k] = old[k]
                  /\ \E k \in 1 .. n :
                        LET a == target[k]
                            b == target[(k % n) + 1]
                            q == nearestPointOnSegment(srcPt, a, b).q
                        IN  /\ OnSegment(q, a, b)
                            /\ \A d \in EdgeDist2s(target, srcPt) :
                                  RLe(segmentDist2(srcPt, a, b), d)
                            /\ moved[src.vertex + 1] =
                                  IF snap THEN snapToGrid(q, DefaultGrid) ELSE q]_vars

\* An extend commit with snap on: vertex 0 of the rectangle, at (0, 4), taken
\* to the triangle's nearest point (62, 6) and from there to the grid.
C24_Witness ==
    /\ ev.type = "down"
    /\ tool = "extend"
    /\ extendStart = Null
    /\ snap = TRUE
    /\ Len(commits) = 1
    /\ Len(past) > 0
    /\ Last(past) = InitialPlan
    /\ present.walls[2].boundary[1] = snapToGrid(Pt(62, 6), DefaultGrid)

\* C25: a pointer-down, pointer-move, pointer-up or key event emits at most
\* one commit, and it is handled against the state its predecessor left: the
\* plan its handler reads is the plan last committed.
C25_OneCommitOnLatestState ==
    [][EventStep({"down", "move", "up", "key"}) =>
          /\ Len(commits') <= 1
          /\ plan = stPresent
          /\ commits' # <<>> => past' = Append(past, stPresent)]_vars

\* C26: every plan the editor commits has the doors, the windows and the
\* dimensions of the plan it was derived from; only the walls can differ.
C26_CommitChangesWallsOnly ==
    [][EventStep({"down", "move", "up", "key", "tool", "snap", "thickness"}) =>
          \A i \in 1 .. Len(commits') :
              /\ commits'[i].doors = plan.doors
              /\ commits'[i].windows = plan.windows
              /\ commits'[i].dimensions = plan.dimensions
              /\ DOMAIN commits'[i] = DOMAIN plan]_vars

\* A commit on the plan the editor was mounted with, which has a door and a
\* window: the walls changed, the door and the window are there.
C26_Witness ==
    /\ Len(commits) = 1
    /\ Len(past) > 0
    /\ Last(past) = InitialPlan
    /\ present = commits[1]
    /\ present.walls # InitialPlan.walls
    /\ present.doors = InitialPlan.doors
    /\ present.windows = InitialPlan.windows
    /\ Len(present.doors) = 1
    /\ Len(present.windows) = 1

\* C27: no event writes to the plan it received, nor to anything a plan
\* committed before refers to: every object there was is as it was, so that
\* the plan before and every earlier snapshot have the walls, boundaries and
\* coordinates they had; and the plan committed is a new object, holding the
\* plan the handler handed to onChange.
C27_EventsWriteToCopiesOnly ==
    [][EventStep({"down", "move", "up", "key"}) =>
          /\ Len(heap') >= Len(heap)
          /\ \A r \in 1 .. Len(heap) : heap'[r] = heap[r]
          /\ Deref(heap', planRef) = plan
          /\ IF commits' = <<>> THEN planRef' = planRef
             ELSE /\ planRef' > Len(heap)
                  /\ heap'[planRef'].kind = "plan"
                  /\ Deref(heap', planRef') = commits'[1]
                  /\ present' = commits'[1]]_vars

\* Two commits made: the plan the editor was mounted with is still what its
\* object holds, and the plan committed last shares a wall object with it.
C27_Witness ==
    /\ Len(past) = 2
    /\ past[1] = InitialPlan
    /\ Deref(heap, Stored(InitialPlan).ref) = InitialPlan
    /\ Deref(heap, planRef) = present
    /\ present # InitialPlan
    /\ \E k \in 1 .. Len(heap[heap[planRef].val.walls].val) :
          heap[heap[planRef].val.walls].val[k]
             \in {heap[Stored(InitialPlan).ref - 1].val[j] :
                     j \in 1 .. Len(InitialPlan.walls)}

\* The tool of each key, as the claim lists them.
KeyTable ==
    {<<"Delete", "delete">>, <<"x", "delete">>, <<"X", "delete">>,
     <<"v", "select">>, <<"V", "select">>, <<"d", "draw">>, <<"D", "draw">>,
     <<"s", "stretch">>, <<"S", "stretch">>, <<"t", "extend">>,
     <<"T", "extend">>, <<"m", "move">>, <<"M", "move">>}

\* C28: a key event changes the tool only: Delete, x and X set it to delete,
\* v, d, s, t, m in either case to select, draw, stretch, extend, move, any
\* other key leaves it; nothing is committed, no wall is removed, Selection,
\* DragSession, ExtendSession and the plan stay as they were.
C28_KeyChangesToolOnly ==
    [][EventStep({"key"}) =>
          /\ \A kt \in KeyTable : ev'.key = kt[1] => tool' = kt[2]
          /\ (\A kt \in KeyTable : ev'.key # kt[1]) => tool' = tool
          /\ commits' = <<>>
          /\ ~raised'
          /\ UNCHANGED <<hvars, wallThickness, snap, hover, selection, drag,
                         extendStart>>]_vars

\* Delete pressed with a wall selected: the tool is delete, the wall is
\* there.
C28_Witness ==
    /\ ev.type = "key"
    /\ ev.key = "Delete"
    /\ tool = "delete"
    /\ selection # Null
    /\ drag # Null
    /\ commits = <<>>
    /\ present = InitialPlan

\* C29: under the move tool a pointer-down changes nothing: not the
\* Selection, the DragSession, the ExtendSession or the plan, and it commits
\* nothing, whatever lies under the pointer.
C29_MoveToolIsDead ==
    [][(EventStep({"down"}) /\ tool = "move") =>
          /\ commits' = <<>>
          /\ ~raised'
          /\ UNCHANGED <<hvars, tool, wallThickness, snap, hover, selection,
                         drag, extendStart>>]_vars

\* A pointer-down inside the triangle under the move tool, the rectangle
\* selected before: the rectangle is still the selection.
C29_Witness ==
    /\ ev.type = "down"
    /\ ev.p = Pt(70, 10)
    /\ tool = "move"
    /\ selection = Some([wall |-> 1, vertex |-> Null])
    /\ present = InitialPlan
    /\ pickWall(boundaries(present), ev.p, PickTolerance) = 0

\* c is a multiple of g: an integer that g divides.
MultipleOf(c, g) == c.d = 1 /\ c.n % g = 0

\* C30: snapToGrid is idempotent, snapToGrid(snapToGrid(p, g), g) =
\* snapToGrid(p, g) for every point p and grid g > 0, and each coordinate of
\* what it returns is a multiple of g.
C30_SnapToGridIdempotent ==
    /\ \A i \in 1 .. Len(gPolys[1]) :
          /\ MultipleOf(gPolys[1][i].x, gTol)
          /\ MultipleOf(gPolys[1][i].y, gTol)
    /\ gOut = 2 => gPolys[1][2] = gPolys[1][1]

\* (5/2, -5/2) snapped to the grid of 5 and snapped again: (5, 0) both
\* times, the half going up.
C30_Witness ==
    /\ gOut = 2
    /\ gTol = DefaultGrid
    /\ gPt = [x |-> Rat(5, 2), y |-> Rat(-5, 2)]
    /\ gPolys[1] = <<Pt(5, 0), Pt(5, 0)>>

\* C31: for p1 # p2, createWallRectangle(p1, p2, t) returns the four
\* vertices p1 + off, p1 - off, p2 - off, p2 + off, off being perpendicular
\* to p2 - p1, to its left, and of length t / 2: the long edges are parallel
\* to p1 - p2 and t apart. From (0, 0) to (100, 0) with t = 20 they run from
\* (0, 10) to (100, 10) and from (0, -10) to (100, -10).
C31_RectangleAroundSegment ==
    (gOut = 1 /\ gPolys[1][1] # gPolys[1][2]) =>
        LET p1 == gPolys[1][1]
            p2 == gPolys[1][2]
            rect == gPolys[2]
            dir == sub(p2, p1)
            off == sub(rect[1], p1)
        IN  /\ Len(rect) = 4
            /\ rect = <<add(p1, off), sub(p1, off), sub(p2, off), add(p2, off)>>
            /\ dot(off, dir) = R(0)
            /\ RLt(R(0), RSub(RMul(dir.x, off.y), RMul(dir.y, off.x)))
            /\ dot(off, off) = Rat(gTol * gTol, 4)
            /\ sub(rect[4], rect[1]) = dir
            /\ sub(rect[3], rect[2]) = dir
            /\ dist2(rect[1], rect[2]) = R(gTol * gTol)
            /\ (p1 = Pt(0, 0) /\ p2 = Pt(100, 0) /\ gTol = 20) =>
                  rect = <<Pt(0, 10), Pt(0, -10), Pt(100, -10), Pt(100, 10)>>

\* The rectangle from (0, 0) to (100, 0) of thickness 20.
C31_Witness ==
    /\ gOut = 1
    /\ gPolys[1] = <<Pt(0, 0), Pt(100, 0)>>
    /\ gTol = 20
    /\ gPolys[2] = <<Pt(0, 10), Pt(0, -10), Pt(100, -10), Pt(100, 10)>>

\* C32: for p1 = p2 createWallRectangle substitutes a unit vector for the
\* direction: the offset still has length t / 2 and the rectangle does not
\* collapse to a point.
C32_DegenerateKeepsOffset ==
    (gOut = 1 /\ gPolys[1][1] = gPolys[1][2]) =>
        LET p1 == gPolys[1][1]
            rect == gPolys[2]
            off == sub(rect[1], p1)
        IN  /\ Len(rect) = 4
            /\ dot(off, off) = Rat(gTol * gTol, 4)
            /\ rect[1] # rect[2]

\* C33: pickVertex(poly, pt, tol) returns an index in -1 .. Len(poly) - 1:
\* the index of the vertex at the least squared distance from pt, the lowest
\* such index when several are at that distance, provided that distance is at
\* most tol squared; and -1 when no vertex is that near, as in a polygon
\* without vertices.
C33_PickVertexNearest ==
    (gOut # -2) =>
        LET poly == gPolys[1]
            D(k) == dist2(poly[k], gPt)
            near == {k \in 1 .. Len(poly) : RLe(D(k), R(gTol * gTol))}
        IN  /\ gOut \in -1 .. (Len(poly) - 1)
            /\ (gOut = -1) <=> (near = {})
            /\ (gOut # -1) =>
                  /\ (gOut + 1) \in near
                  /\ \A k \in 1 .. Len(poly) : RLe(D(gOut + 1), D(k))
                  /\ \A k \in 1 .. gOut : RLt(D(gOut + 1), D(k))

\* Two vertices at the same least distance, within the tolerance: the one
\* of lower index is returned.
C33_Witness ==
    /\ gOut >= 0
    /\ \E k \in (gOut + 2) .. Len(gPolys[1]) :
          dist2(gPolys[1][k], gPt) = dist2(gPolys[1][gOut + 1], gPt)

\* C34: with snap off a move-wall drag accumulates exactly. The select
\* pointer-down at p0 that opens the drag anchors it at p0 and commits
\* nothing; each pointer-move to p then translates the selected wall by p
\* minus the anchor and moves the anchor to p, so that vertex minus anchor
\* stays what it was at the pointer-down: after moves p1 .. pk the wall is
\* translated by pk - p0.
C34_MoveWallAccumulatesExactly ==
    [][\A p \in Pointer :
          /\ (DownStep("select", p) /\ drag' # Null /\ drag' # drag) =>
                /\ drag'[1].kind = "move-wall"
                /\ drag'[1].startPt = p
                /\ commits' = <<>>
          /\ (/\ DragStep("move-wall", p)
              /\ ~snap
              /\ selection[1].wall < Len(plan.walls)) =>
                LET k == selection[1].wall
                    old == plan.walls[k + 1].boundary
                    new == commits'[1].walls[k + 1].boundary
                IN  /\ Len(commits') = 1
                    /\ present' = commits'[1]
                    /\ drag' # Null
                    /\ drag'[1].startPt = p
                    /\ Len(new) = Len(old)
                    /\ \A v \in 1 .. Len(old) :
                          sub(new[v], p) = sub(old[v], drag[1].startPt)]_vars

\* Snap off and two pointer-moves of one move-wall drag: the wall moved
\* twice, and is where it was two commits ago plus the pointer's whole
\* displacement.
C34_Witness ==
    /\ ev.type = "move"
    /\ ~snap
    /\ drag # Null
    /\ drag[1].kind = "move-wall"
    /\ selection # Null
    /\ selection[1].wall < Len(present.walls)
    /\ Len(past) = 2
    /\ past[1].walls[selection[1].wall + 1] # past[2].walls[selection[1].wall + 1]
    /\ past[2].walls[selection[1].wall + 1] # present.walls[selection[1].wall + 1]
    /\ \E p0 \in Pointer :
          sub(present.walls[selection[1].wall + 1].boundary[1], ev.p)
            = sub(past[1].walls[selection[1].wall + 1].boundary[1], p0)

\* C35: every second click of the extend tool that commits has a target
\* wall other than the source wall: the wall picked at the second click is
\* never the wall of the ExtendSession.
C35_TargetIsAnotherWall ==
    [][\A p \in Pointer :
          (ExtendCommit(p) /\ ~raised') =>
              pickWall(boundaries(plan), p, PickTolerance) # extendStart[1].wall]_vars

\* C36: session indices stay valid in every state reached by pointer and
\* key events: a Selection, an open move-wall or move-vertex DragSession and
\* an ExtendSession each name a wall index below the number of walls of the
\* plan, and a vertex index (where they have one) below that wall's number
\* of vertices, also after a delete made while the session is open.
C36_SessionIndicesValid ==
    LET walls == plan.walls
        ValidWall(w) == w >= 0 /\ w < Len(walls)
        ValidVertex(w, v) == ValidWall(w) /\ v >= 0 /\ v < Len(walls[w + 1].boundary)
    IN  /\ selection # Null =>
              /\ ValidWall(selection[1].wall)
              /\ selection[1].vertex # Null =>
                    ValidVertex(selection[1].wall, selection[1].vertex[1])
        /\ (drag # Null /\ drag[1].kind \in {"move-wall", "move-vertex"}) =>
              /\ drag[1].startWall # Null => ValidWall(drag[1].startWall[1])
              /\ (drag[1].startWall # Null /\ drag[1].vertex # Null) =>
                    ValidVertex(drag[1].startWall[1], drag[1].vertex[1])
        /\ extendStart # Null =>
              ValidVertex(extendStart[1].wall, extendStart[1].vertex)

\* C37: over pointer and key events the number of walls changes only by
\* one less on a pointer-down of the delete tool and by one more on the
\* pointer-up of a draw drag, and every commit of a move-wall drag, of a
\* move-vertex drag and of the extend tool leaves the number of walls and
\* the number of vertices of every wall as they were.
C37_CountsPreserved ==
    [][(EventStep({"down", "move", "up", "key"}) /\ ~raised') =>
          LET old == present.walls
              new == present'.walls
          IN  /\ Len(new) # Len(old) =>
                    \/ /\ ev'.type = "down"
                       /\ tool = "delete"
                       /\ Len(new) = Len(old) - 1
                    \/ /\ ev'.type = "up"
                       /\ drag # Null
                       /\ drag[1].kind = "draw"
                       /\ Len(new) = Len(old) + 1
              /\ (/\ commits' # <<>>
                  /\ \/ ev'.type = "move"
                     \/ ev'.type = "down" /\ tool = "extend") =>
                    /\ Len(new) = Len(old)
                    /\ \A w \in 1 .. Len(old) :
                          Len(new[w].boundary) = Len(old[w].boundary)]_vars

\* C38: in every reachable state an open DragSession of kind move-wall or
\* move-vertex comes with a Selection, the Selection's wall is the
\* DragSession's startWall, and for move-vertex the Selection's vertex is
\* the DragSession's vertex.
C38_DragSelectionCoupled ==
    (drag # Null /\ drag[1].kind \in {"move-wall", "move-vertex"}) =>
        /\ selection # Null
        /\ Some(selection[1].wall) = drag[1].startWall
        /\ drag[1].kind = "move-vertex" => selection[1].vertex = drag[1].vertex

\* C39: history calls made with no render between them behave like calls
\* made one render apart: each call pushes the present of the moment of the
\* call (the state cell's value), so that after set(A); set(B) past ends
\* with A and an undo() yields A, and after two undo() future holds both
\* presents undone.
C39_BatchedCallsPushTruePresent ==
    /\ hop.op = "set" => past = Append(hpre.past, hpre.stPresent)
    /\ (hop.op = "undo" /\ hpre.past # <<>>) =>
          future = Append(hpre.future, hpre.stPresent)
    /\ (hop.op = "redo" /\ hpre.future # <<>>) =>
          past = Append(hpre.past, hpre.stPresent)

Reverse(s) == [i \in 1 .. Len(s) |-> s[Len(s) + 1 - i]]

\* The undone, the present and the redoable in one sequence.
Timeline(h) == h.past \o <<h.stPresent>> \o Reverse(h.future)

\* C40: undo() and redo() move the present along a sequence they leave as it
\* is: past ++ [present] ++ reverse(future) is unchanged by every undo() and
\* every redo(), undo() from a non-empty past makes past one shorter and
\* redo() from a non-empty future makes it one longer, so that undo(); redo()
\* and redo(); undo() restore past, present and future exactly.
C40_UndoRedoRoundTrip ==
    /\ hop.op \in {"undo", "redo"} => Timeline(H) = Timeline(hpre)
    /\ (hop.op = "undo" /\ hpre.past # <<>>) => Len(past) = Len(hpre.past) - 1
    /\ (hop.op = "redo" /\ hpre.future # <<>>) => Len(past) = Len(hpre.past) + 1

====
